---- MODULE Spec2Model ----
(***************************************************************************)
(* Block entity model of gmsh_scripts (src/block.py): the canonical        *)
(* topology tables, the registration / unregistration lifecycle of a tree  *)
(* of Blocks against the geometry kernel, and the boolean grouping of      *)
(* child boundary faces into internal surface loops.                       *)
(***************************************************************************)
EXTENDS Integers, Sequences, FiniteSets, TLC

VARIABLES blocks, kernel, shared, call, ncalls, volumes_surfaces,
          surfaces_groups, args, parsed, walk

vars == <<blocks, kernel, shared, call, ncalls, volumes_surfaces,
          surfaces_groups, args, parsed, walk>>

\* ------------------------------------------------------------------------
\* Bounds of the explored instances
\* ------------------------------------------------------------------------
MaxBlocks == 3

MaxCalls == 3

MaxChildren == 2

MaxLists == 3

MaxTag == 3

Blocks == 1..MaxBlocks

None == 0

\* ------------------------------------------------------------------------
\* Generic helpers
\* ------------------------------------------------------------------------
Range(s) == {s[i] : i \in DOMAIN s}

Min(S) == CHOOSE x \in S : \A y \in S : x <= y

RECURSIVE SortedSeq(_)
SortedSeq(S) == IF S = {} THEN <<>> ELSE <<Min(S)>> \o SortedSeq(S \ {Min(S)})

\* python: sep in zone (substring test on strings, here sequences of characters)
Contains(sep, zone) ==
    \E i \in 0..(Len(zone) - Len(sep)) :
        \A k \in 1..Len(sep) : zone[i + k] = sep[k]

DefaultSeparator == <<"-">>

\* ------------------------------------------------------------------------
\* Canonical topology tables (class attributes of Block, 0-based indices)
\* ------------------------------------------------------------------------
curves_points_swapped ==
    << <<0, 1>>, <<5, 4>>, <<6, 7>>, <<2, 3>>,
       <<3, 0>>, <<2, 1>>, <<6, 5>>, <<7, 4>>,
       <<0, 4>>, <<1, 5>>, <<2, 6>>, <<3, 7>> >>

curves_points ==
    << <<1, 0>>, <<5, 4>>, <<6, 7>>, <<2, 3>>,
       <<3, 0>>, <<2, 1>>, <<6, 5>>, <<7, 4>>,
       <<0, 4>>, <<1, 5>>, <<2, 6>>, <<3, 7>> >>

surfaces_curves ==
    << <<5, 9, 6, 10>>,
       <<4, 11, 7, 8>>,
       <<10, 2, 11, 3>>,
       <<0, 8, 1, 9>>,
       <<0, 5, 3, 4>>,
       <<7, 2, 6, 1>> >>

\* the signs of a table that takes every curve in its own direction
surfaces_curves_unsigned ==
    [i \in 1..6 |-> <<1, 1, 1, 1>>]

surfaces_curves_signs ==
    << <<1, 1, -1, -1>>,
       <<-1, 1, 1, -1>>,
       <<1, 1, -1, -1>>,
       <<1, 1, -1, -1>>,
       <<-1, -1, 1, 1>>,
       <<-1, -1, 1, 1>> >>

\* parse_points(None): the 8 corners P0..P7 of the default cube
default_points ==
    << <<1, 1, -1>>, <<-1, 1, -1>>, <<-1, -1, -1>>, <<1, -1, -1>>,
       <<1, 1, 1>>, <<-1, 1, 1>>, <<-1, -1, 1>>, <<1, -1, 1>> >>

\* Block docstring, "Curves": Ci: Pa -> Pb
doc_curves ==
    << <<1, 0>>, <<5, 4>>, <<6, 7>>, <<2, 3>>,
       <<3, 0>>, <<2, 1>>, <<6, 5>>, <<7, 4>>,
       <<0, 4>>, <<1, 5>>, <<2, 6>>, <<3, 7>> >>

\* Block docstring, "Surfaces": Si: (sign, curve) -> ...
doc_surfaces ==
    << << <<1, 5>>, <<1, 9>>, <<-1, 6>>, <<-1, 10>> >>,
       << <<-1, 4>>, <<1, 11>>, <<1, 7>>, <<-1, 8>> >>,
       << <<-1, 3>>, <<1, 10>>, <<1, 2>>, <<-1, 11>> >>,
       << <<1, 0>>, <<1, 8>>, <<-1, 1>>, <<-1, 9>> >>,
       << <<-1, 0>>, <<-1, 5>>, <<1, 3>>, <<1, 4>> >>,
       << <<1, 1>>, <<-1, 7>>, <<-1, 2>>, <<1, 6>> >> >>

\* ------------------------------------------------------------------------
\* Geometry kernel (registry collaborator): a log of the calls it received.
\* A register call returns the entity with a tag; two coincident faces
\* (the pairs of `shared`) get one tag.
\* ------------------------------------------------------------------------
Entry(op, owner, idx, tag, refs, by, sep) ==
    [op |-> op, owner |-> owner, idx |-> idx, tag |-> tag, refs |-> refs,
     by |-> by, sep |-> sep]

NewTag(k, op) == 1 + Cardinality({i \in DOMAIN k : k[i].op = op})

\* faces <<b, i>> coincident with face <<owner, idx>>
Coincident(sh, owner, idx) ==
    {f[2] : f \in {g \in sh : g[1] = <<owner, idx>>}}
    \cup {f[1] : f \in {g \in sh : g[2] = <<owner, idx>>}}

SurfaceTag(k, sh, owner, idx) ==
    LET same == {i \in DOMAIN k : /\ k[i].op = "register_surface"
                                  /\ <<k[i].owner, k[i].idx>>
                                        \in Coincident(sh, owner, idx)}
    IN IF same = {} THEN NewTag(k, "register_surface")
       ELSE k[Min(same)].tag

register_point(k, owner, idx, by) ==
    Append(k, Entry("register_point", owner, idx,
                    NewTag(k, "register_point"), <<>>, by, <<>>))

register_curve(k, owner, idx, points) ==
    Append(k, Entry("register_curve", owner, idx,
                    NewTag(k, "register_curve"), points, "register_curves", <<>>))

register_curve_loop(k, owner, idx, signed_curves) ==
    Append(k, Entry("register_curve_loop", owner, idx,
                    NewTag(k, "register_curve_loop"), signed_curves,
                    "register_curves_loops", <<>>))

register_surface(k, sh, owner, idx, loops) ==
    Append(k, Entry("register_surface", owner, idx,
                    SurfaceTag(k, sh, owner, idx), loops, "register_surfaces",
                    <<>>))

register_surface_loop(k, owner, idx, surfaces) ==
    Append(k, Entry("register_surface_loop", owner, idx,
                    NewTag(k, "register_surface_loop"), surfaces,
                    "register_surfaces_loops", <<>>))

register_volume(k, owner, loops) ==
    Append(k, Entry("register_volume", owner, 0,
                    NewTag(k, "register_volume"), loops, "register_volumes", <<>>))

unregister_volume(k, owner, tag, by, sep) ==
    Append(k, Entry("unregister_volume", owner, 0, tag, <<>>, by, sep))

\* the volumes the kernel holds: registered and not removed afterwards
KernelVolumes(k) ==
    {k[i].tag : i \in {j \in DOMAIN k :
        /\ k[j].op = "register_volume"
        /\ ~\E m \in DOMAIN k : /\ m > j
                                /\ k[m].op = "unregister_volume"
                                /\ k[m].tag = k[j].tag}}

LastTag(k) == k[Len(k)].tag

LastEntryOf(k) == k[Len(k)]

\* ------------------------------------------------------------------------
\* Structure and Quadrate directives (support module) and the kernel calls
\* that apply them.  A directive the Block does not have (python None) is
\* the directive without a name.
\* ------------------------------------------------------------------------
Kwargs(nPoints, meshType, coef, cornerTags, arrangement) ==
    [nPoints |-> nPoints, meshType |-> meshType, coef |-> coef,
     cornerTags |-> cornerTags, arrangement |-> arrangement]

NoKwargs == Kwargs(None, None, None, <<>>, "")

Structure(name, kwargs) == [name |-> name, kwargs |-> kwargs]

Quadrate(name) == [name |-> name]

NoStructure == Structure("", NoKwargs)

NoQuadrate == Quadrate("")

register_curve_structure(k, owner, idx, points) ==
    Append(k, Entry("register_curve_structure", owner, idx, None, points,
                    "register_structure", <<>>))

register_surface_structure(k, owner, idx, points) ==
    Append(k, Entry("register_surface_structure", owner, idx, None, points,
                    "register_structure", <<>>))

register_volume_structure(k, owner, points) ==
    Append(k, Entry("register_volume_structure", owner, 0, None, points,
                    "register_structure", <<>>))

register_surface_quadrate(k, owner, idx, points) ==
    Append(k, Entry("register_surface_quadrate", owner, idx, None, points,
                    "register_quadrate", <<>>))

\* ------------------------------------------------------------------------
\* Boolean grouping collaborator (support module): face-tag lists that
\* share a tag end in one group; the groups are returned as sets of tags.
\* ------------------------------------------------------------------------
\* add_to_groups that joins the list with the first group it meets only
add_to_groups_first(groups, list) ==
    LET s == Range(list)
        joined == {i \in DOMAIN groups : groups[i] \cap s # {}}
    IN IF joined = {} THEN Append(groups, s)
       ELSE [groups EXCEPT ![Min(joined)] = @ \cup s]

add_to_groups(groups, list) ==
    LET s == Range(list)
        apart == SelectSeq(groups, LAMBDA g : g \cap s = {})
        joined == {i \in DOMAIN groups : groups[i] \cap s # {}}
    IN Append(apart, s \cup UNION {groups[i] : i \in joined})

RECURSIVE groups_from(_, _, _)
groups_from(lists, i, groups) ==
    IF i > Len(lists) THEN groups
    ELSE groups_from(lists, i + 1, add_to_groups(groups, lists[i]))

volumes_surfaces_to_volumes_groups_surfaces(lists) ==
    groups_from(lists, 1, <<>>)

\* ------------------------------------------------------------------------
\* Block.register and its steps.  st = [blocks, kernel, shared, err]; err is
\* set when an exception is raised and every later step is then skipped.
\* ------------------------------------------------------------------------
\* Each loop "for i, x in enumerate(xs): xs[i] = register_x(x)" issues its
\* kernel calls in index order.  Calls(k, es) is the log k after the calls
\* whose entries are es[1], es[2], ...; Later(e, i) is the entry e of a call
\* made on k when i calls of its kind were logged in between.
Calls(k, es) == k \o es

Later(e, i) == [e EXCEPT !.tag = @ + i]

register_points(st, b) ==
    LET k == st.kernel
        e(i) == Later(LastEntryOf(register_point(k, b, i, "register_points")),
                      i)
        k1 == Calls(k, [i \in 1..8 |-> e(i - 1)])
    IN [st EXCEPT !.kernel = k1,
                  !.blocks[b].points = [i \in 1..8 |-> k1[Len(k) + i].tag]]

RECURSIVE ChainOffset(_, _)
ChainOffset(chains, i) ==
    IF i = 0 THEN 0 ELSE ChainOffset(chains, i - 1) + Len(chains[i])

\* every point a curve holds is registered (again), curve after curve, then
\* the curve gets the Block's corner points as first and last point
register_curve_points(st, b) ==
    LET k == st.kernel
        chains == st.blocks[b].curves_chain
        curve_of(m) == CHOOSE i \in 0..11 :
                           /\ ChainOffset(chains, i) < m
                           /\ m <= ChainOffset(chains, i + 1)
        e(m) == Later(LastEntryOf(register_point(k, b, curve_of(m + 1),
                                                 "register_curve_points")),
                      m)
        k1 == Calls(k, [i \in 1..ChainOffset(chains, 12) |-> e(i - 1)])
        p0(i) == st.blocks[b].points[curves_points[i + 1][1] + 1]
        p1(i) == st.blocks[b].points[curves_points[i + 1][2] + 1]
    IN [st EXCEPT
          !.kernel = k1,
          !.blocks[b].curves_chain =
              [i \in 1..12 |->
                  <<p0(i - 1)>>
                  \o [j \in 1..Len(chains[i]) |->
                        k1[Len(k) + ChainOffset(chains, i - 1) + j].tag]
                  \o <<p1(i - 1)>>]]

register_curves(st, b) ==
    LET k == st.kernel
        e(i) == Later(LastEntryOf(register_curve(
                          k, b, i, st.blocks[b].curves_chain[i + 1])), i)
        k1 == Calls(k, [i \in 1..12 |-> e(i - 1)])
    IN [st EXCEPT !.kernel = k1,
                  !.blocks[b].curves = [i \in 1..12 |-> k1[Len(k) + i].tag]]

register_curves_loops(st, b) ==
    LET k == st.kernel
        cs(i) == [n \in 1..4 |->
                    surfaces_curves_signs[i + 1][n]
                    * st.blocks[b].curves[surfaces_curves[i + 1][n] + 1]]
        e(i) == Later(LastEntryOf(register_curve_loop(k, b, i, cs(i))), i)
        k1 == Calls(k, [i \in 1..6 |-> e(i - 1)])
    IN [st EXCEPT !.kernel = k1,
                  !.blocks[b].curves_loops =
                      [i \in 1..6 |-> k1[Len(k) + i].tag]]

\* a face coincident with a registered one gets that face's tag, and no two
\* faces of one Block coincide
register_surfaces(st, b) ==
    LET k == st.kernel
        e(i) == LET one == LastEntryOf(register_surface(
                               k, st.shared, b, i,
                               <<st.blocks[b].curves_loops[i + 1]>>))
                IN IF one.tag = NewTag(k, "register_surface")
                   THEN Later(one, i) ELSE one
        k1 == Calls(k, [i \in 1..6 |-> e(i - 1)])
    IN [st EXCEPT !.kernel = k1,
                  !.blocks[b].surfaces = [i \in 1..6 |-> k1[Len(k) + i].tag]]

\* the children whose volumes become internal: c.do_register
internal_volumes(st, b) ==
    SelectSeq(st.blocks[b].children, LAMBDA c : st.blocks[c].do_register)

RECURSIVE register_groups_from(_, _, _, _)
register_groups_from(st, b, groups, i) ==
    IF i > Len(groups) THEN st
    ELSE LET k == register_surface_loop(st.kernel, b,
                                        Len(st.blocks[b].surfaces_loops),
                                        SortedSeq(groups[i]))
         IN register_groups_from(
                [st EXCEPT !.kernel = k,
                           !.blocks[b].surfaces_loops = Append(@, LastTag(k))],
                b, groups, i + 1)

\* register_surfaces_loops without the check of the children
register_surfaces_loops_unchecked(st, b) ==
    LET k == register_surface_loop(st.kernel, b, 0, st.blocks[b].surfaces)
        s1 == [st EXCEPT !.kernel = k,
                         !.blocks[b].surfaces_loops[1] = LastTag(k)]
        cs == internal_volumes(s1, b)
    IN IF s1.blocks[b].boolean_level # None THEN s1
       ELSE register_groups_from(
                s1, b,
                volumes_surfaces_to_volumes_groups_surfaces(
                    [n \in DOMAIN cs |-> s1.blocks[cs[n]].surfaces]),
                1)

\* register_surfaces_loops that groups the children at every boolean level
register_surfaces_loops_any_level(st, b) ==
    LET k == register_surface_loop(st.kernel, b, 0, st.blocks[b].surfaces)
        s1 == [st EXCEPT !.kernel = k,
                         !.blocks[b].surfaces_loops[1] = LastTag(k)]
        cs == internal_volumes(s1, b)
    IN IF \E n \in DOMAIN cs : ~s1.blocks[cs[n]].is_registered
       THEN [s1 EXCEPT !.err = TRUE]
       ELSE register_groups_from(
                s1, b,
                volumes_surfaces_to_volumes_groups_surfaces(
                    [n \in DOMAIN cs |-> s1.blocks[cs[n]].surfaces]),
                1)

register_surfaces_loops(st, b) ==
    LET k == register_surface_loop(st.kernel, b, 0, st.blocks[b].surfaces)
        s1 == [st EXCEPT !.kernel = k,
                         !.blocks[b].surfaces_loops[1] = LastTag(k)]
        cs == internal_volumes(s1, b)
    IN IF s1.blocks[b].boolean_level # None THEN s1
       ELSE IF \E n \in DOMAIN cs : ~s1.blocks[cs[n]].is_registered
            THEN [s1 EXCEPT !.err = TRUE]
            ELSE register_groups_from(
                     s1, b,
                     volumes_surfaces_to_volumes_groups_surfaces(
                         [n \in DOMAIN cs |-> s1.blocks[cs[n]].surfaces]),
                     1)

\* register_volumes that hands the kernel the outer loop last
register_volumes_outer_last(st, b) ==
    LET loops == st.blocks[b].surfaces_loops
        k == register_volume(st.kernel, b, Tail(loops) \o <<Head(loops)>>)
    IN [st EXCEPT !.kernel = k,
                  !.blocks[b].volume = LastTag(k),
                  !.blocks[b].volume_surfaces_loops =
                      st.blocks[b].surfaces_loops,
                  !.blocks[b].is_registered = TRUE]

register_volumes(st, b) ==
    LET k == register_volume(st.kernel, b, st.blocks[b].surfaces_loops)
    IN [st EXCEPT !.kernel = k,
                  !.blocks[b].volume = LastTag(k),
                  !.blocks[b].volume_surfaces_loops =
                      st.blocks[b].surfaces_loops,
                  !.blocks[b].is_registered = TRUE]

\* register_structure: the loop over the 12 curves reads
\* curves_structures[i], which raises IndexError at the first i the list
\* does not have; the faces and the volume get their corner tags and, the
\* faces, their arrangement before the kernel call
register_structure(st, b) ==
    LET bl == st.blocks[b]
        cs == bl.curves_structures
        read == Min({12, Len(cs)})
        curve_calls ==
            SelectSeq([i \in 1..read |->
                          LastEntryOf(register_curve_structure(
                              st.kernel, b, i - 1, bl.curves_chain[i]))],
                      LAMBDA e : cs[e.idx + 1] # NoStructure)
        k1 == Calls(st.kernel, curve_calls)
        ps(i) == [n \in 1..4 |-> bl.points[bl.surfaces_points[i][n] + 1]]
        ss == [i \in 1..6 |->
                  IF bl.surfaces_structures[i] = NoStructure THEN NoStructure
                  ELSE [bl.surfaces_structures[i] EXCEPT
                           !.kwargs.cornerTags = ps(i),
                           !.kwargs.arrangement = bl.surfaces_arrangement[i]]]
        surface_calls ==
            SelectSeq([i \in 1..6 |->
                          LastEntryOf(register_surface_structure(
                              k1, b, i - 1, ps(i)))],
                      LAMBDA e : ss[e.idx + 1] # NoStructure)
        k2 == Calls(k1, surface_calls)
        applies == /\ Len(bl.volumes_structures) > 0
                   /\ bl.volumes_structures[1] # NoStructure
        vs == IF ~applies THEN bl.volumes_structures
              ELSE [bl.volumes_structures EXCEPT
                       ![1].kwargs.cornerTags =
                           [n \in 1..8 |-> bl.points[bl.volume_points[n] + 1]]]
        k3 == IF applies THEN register_volume_structure(k2, b, bl.points)
              ELSE k2
    IN IF Len(cs) < 12 THEN [st EXCEPT !.kernel = k1, !.err = TRUE]
       ELSE [st EXCEPT !.kernel = k3,
                       !.blocks[b].surfaces_structures = ss,
                       !.blocks[b].volumes_structures = vs]

register_quadrate(st, b) ==
    LET bl == st.blocks[b]
        ps(i) == [n \in 1..4 |-> bl.points[bl.surfaces_points[i][n] + 1]]
        quadrate_calls ==
            SelectSeq([i \in 1..6 |->
                          LastEntryOf(register_surface_quadrate(
                              st.kernel, b, i - 1, ps(i)))],
                      LAMBDA e : bl.surfaces_quadrates[e.idx + 1] # NoQuadrate)
    IN [st EXCEPT !.kernel = Calls(st.kernel, quadrate_calls)]

\* register's steps with the directives applied before the volume exists
register_self_directives_first(st, b) ==
    LET s1 == register_surfaces_loops(
                  register_surfaces(
                      register_curves_loops(
                          register_curves(
                              register_curve_points(
                                  register_points(st, b), b), b), b), b), b)
        s2 == IF s1.err THEN s1 ELSE register_structure(s1, b)
        s3 == IF s2.err THEN s2 ELSE register_quadrate(s2, b)
    IN IF s3.err THEN s3 ELSE register_volumes(s3, b)

\* register's steps undone when one of them raises
register_self_rolled_back(st, b) ==
    LET s1 == register_surfaces_loops(
                  register_surfaces(
                      register_curves_loops(
                          register_curves(
                              register_curve_points(
                                  register_points(st, b), b), b), b), b), b)
        s2 == IF s1.err THEN s1 ELSE register_volumes(s1, b)
        s3 == IF s2.err THEN s2 ELSE register_structure(s2, b)
        s4 == IF s3.err THEN s3 ELSE register_quadrate(s3, b)
    IN IF s4.err THEN [st EXCEPT !.err = TRUE] ELSE s4

register_self(st, b) ==
    LET s1 == register_surfaces_loops(
                  register_surfaces(
                      register_curves_loops(
                          register_curves(
                              register_curve_points(
                                  register_points(st, b), b), b), b), b), b)
        s2 == IF s1.err THEN s1 ELSE register_volumes(s1, b)
        s3 == IF s2.err THEN s2 ELSE register_structure(s2, b)
    IN IF s3.err THEN s3 ELSE register_quadrate(s3, b)

RECURSIVE register(_, _)
RECURSIVE register_children(_, _, _)
register_children(st, b, i) ==
    IF st.err \/ i > Len(st.blocks[b].children) THEN st
    ELSE register_children(register(st, st.blocks[b].children[i]), b, i + 1)

\* register that does not look at is_registered
register_again(st, b) ==
    LET s1 == IF st.blocks[b].do_register_children
              THEN register_children(st, b, 1) ELSE st
    IN IF s1.err THEN s1
       ELSE IF ~s1.blocks[b].do_register THEN s1
            ELSE register_self(s1, b)

\* register that registers the Block itself before its children
register_self_first(st, b) ==
    LET s1 == IF ~st.blocks[b].do_register \/ st.blocks[b].is_registered
              THEN st ELSE register_self(st, b)
    IN IF s1.err THEN s1
       ELSE IF s1.blocks[b].do_register_children
            THEN register_children(s1, b, 1) ELSE s1

register(st, b) ==
    LET s1 == IF st.blocks[b].do_register_children
              THEN register_children(st, b, 1) ELSE st
    IN IF s1.err THEN s1
       ELSE IF ~s1.blocks[b].do_register \/ s1.blocks[b].is_registered
            THEN s1
            ELSE register_self(s1, b)

\* ------------------------------------------------------------------------
\* Block.unregister and Block.unregister_boolean: the recursion into the
\* children calls c.unregister() / c.unregister_boolean() with no argument,
\* so a child is judged with the default separator.
\* ------------------------------------------------------------------------
RECURSIVE unregister(_, _, _)
RECURSIVE unregister_children(_, _, _)
unregister_children(st, b, i) ==
    IF i > Len(st.blocks[b].children) THEN st
    ELSE unregister_children(
             unregister(st, st.blocks[b].children[i], DefaultSeparator),
             b, i + 1)

\* unregister that does not look at the zone
unregister_any_zone(st, b, zone_separator) ==
    LET s1 == IF st.blocks[b].do_unregister_children
              THEN unregister_children(st, b, 1) ELSE st
    IN IF ~s1.blocks[b].do_unregister THEN s1
       ELSE IF ~s1.blocks[b].is_registered THEN s1
       ELSE [s1 EXCEPT !.kernel =
                unregister_volume(@, b, s1.blocks[b].volume,
                                  "unregister", zone_separator)]

\* unregister that marks the Block unregistered when its volume is removed
unregister_resetting(st, b, zone_separator) ==
    LET s1 == IF st.blocks[b].do_unregister_children
              THEN unregister_children(st, b, 1) ELSE st
    IN IF ~s1.blocks[b].do_unregister THEN s1
       ELSE IF ~s1.blocks[b].is_registered THEN s1
       ELSE IF ~Contains(zone_separator, s1.blocks[b].zone)
            THEN [s1 EXCEPT !.kernel =
                     unregister_volume(@, b, s1.blocks[b].volume,
                                       "unregister", zone_separator),
                            !.blocks[b].is_registered = FALSE]
            ELSE s1

unregister(st, b, zone_separator) ==
    LET s1 == IF st.blocks[b].do_unregister_children
              THEN unregister_children(st, b, 1) ELSE st
    IN IF ~s1.blocks[b].do_unregister THEN s1
       ELSE IF ~s1.blocks[b].is_registered THEN s1
       ELSE IF ~Contains(zone_separator, s1.blocks[b].zone)
            THEN [s1 EXCEPT !.kernel =
                     unregister_volume(@, b, s1.blocks[b].volume,
                                       "unregister", zone_separator)]
            ELSE s1

RECURSIVE unregister_boolean(_, _, _)
RECURSIVE unregister_boolean_children(_, _, _)
unregister_boolean_children(st, b, i) ==
    IF i > Len(st.blocks[b].children) THEN st
    ELSE unregister_boolean_children(
             unregister_boolean(st, st.blocks[b].children[i],
                                DefaultSeparator),
             b, i + 1)

\* unregister_boolean that does not look at boolean_level
unregister_boolean_any_level(st, b, zone_separator) ==
    LET s1 == IF st.blocks[b].do_unregister_boolean_children
              THEN unregister_boolean_children(st, b, 1) ELSE st
    IN IF ~s1.blocks[b].is_registered \/ ~s1.blocks[b].do_unregister_boolean
       THEN s1
       ELSE IF Contains(zone_separator, s1.blocks[b].zone)
            THEN [s1 EXCEPT !.kernel =
                     unregister_volume(@, b, s1.blocks[b].volume,
                                       "unregister_boolean", zone_separator)]
            ELSE s1

unregister_boolean(st, b, zone_separator) ==
    LET s1 == IF st.blocks[b].do_unregister_boolean_children
              THEN unregister_boolean_children(st, b, 1) ELSE st
    IN IF ~s1.blocks[b].is_registered \/ ~s1.blocks[b].do_unregister_boolean
       THEN s1
       ELSE IF s1.blocks[b].boolean_level = None THEN s1
       ELSE IF Contains(zone_separator, s1.blocks[b].zone)
            THEN [s1 EXCEPT !.kernel =
                     unregister_volume(@, b, s1.blocks[b].volume,
                                       "unregister_boolean", zone_separator)]
            ELSE s1

\* ------------------------------------------------------------------------
\* Block.transform.  A transform is [name, by]; reduce_transforms applies a
\* list of them to a point in order, a coordinate-system change leaving the
\* point cartesian.
\* ------------------------------------------------------------------------
Transformation(name, by) == [name |-> name, by |-> by]

reduce_transforms(transforms, p) ==
    [p EXCEPT !.applied = @ \o transforms,
              !.coordinate_system =
                  IF \E i \in DOMAIN transforms :
                         transforms[i].name = "block_to_cartesian"
                  THEN "cartesian" ELSE @]

IsBlockCS(p) == p.coordinate_system = "block"

\* [x.coordinates for x in self.parent.points]
ParentCoordinates(st, b) ==
    [x \in 1..8 |-> st.blocks[st.blocks[b].parent].coordinates[x].applied]

\* one pass of either loop over a point p of Block b
transform_point(st, b, p) ==
    reduce_transforms(
        st.blocks[b].transforms,
        IF IsBlockCS(p) THEN [p EXCEPT !.ps = ParentCoordinates(st, b)] ELSE p)

\* the loop over the corner points: it stops, raising, at the first point in
\* the Block coordinate system when there is no parent
transform_points(st, b) ==
    LET ps == st.blocks[b].coordinates
        relative == {i \in DOMAIN ps : IsBlockCS(ps[i])}
        stop == IF st.blocks[b].parent = None /\ relative # {}
                THEN Min(relative) ELSE Len(ps) + 1
    IN [st EXCEPT !.err = stop <= Len(ps),
                  !.blocks[b].coordinates =
                      [i \in DOMAIN ps |->
                          IF i < stop THEN transform_point(st, b, ps[i])
                          ELSE ps[i]]]

\* the loop over the points of the 12 curves, in curve then point order
transform_curves_points(st, b) ==
    LET cs == st.blocks[b].curves_coordinates
        relative == {i \in DOMAIN cs :
                        \E j \in DOMAIN cs[i] : IsBlockCS(cs[i][j])}
        raises == st.blocks[b].parent = None /\ relative # {}
        si == IF raises THEN Min(relative) ELSE Len(cs) + 1
        sj == IF raises
              THEN Min({j \in DOMAIN cs[si] : IsBlockCS(cs[si][j])}) ELSE 1
    IN [st EXCEPT !.err = raises,
                  !.blocks[b].curves_coordinates =
                      [i \in DOMAIN cs |->
                          [j \in DOMAIN cs[i] |->
                              IF i < si \/ (i = si /\ j < sj)
                              THEN transform_point(st, b, cs[i][j])
                              ELSE cs[i][j]]]]

RECURSIVE transform(_, _)

RECURSIVE transform_children(_, _, _)

\* the loop over the children that hands a child the parent's transforms
\* before the transforms declared for it
transform_children_parent_first(st, b, i) ==
    IF st.err \/ i > Len(st.blocks[b].children) THEN st
    ELSE IF i > Len(st.blocks[b].children_transforms)
    THEN [st EXCEPT !.err = TRUE]
    ELSE LET c == st.blocks[b].children[i]
             s1 == [st EXCEPT !.blocks[c].transforms =
                        @ \o st.blocks[b].transforms
                          \o st.blocks[b].children_transforms[i]]
         IN transform_children(transform(s1, c), b, i + 1)

\* the loop over the children that hands a child the transforms only when
\* its list does not end with them already
transform_children_once(st, b, i) ==
    IF st.err \/ i > Len(st.blocks[b].children) THEN st
    ELSE IF i > Len(st.blocks[b].children_transforms)
    THEN [st EXCEPT !.err = TRUE]
    ELSE LET c == st.blocks[b].children[i]
             more == st.blocks[b].children_transforms[i]
                         \o st.blocks[b].transforms
             has == st.blocks[c].transforms
             s1 == IF /\ Len(has) >= Len(more)
                      /\ SubSeq(has, Len(has) - Len(more) + 1, Len(has)) = more
                   THEN st
                   ELSE [st EXCEPT !.blocks[c].transforms = @ \o more]
         IN transform_children(transform(s1, c), b, i + 1)

\* children_transforms[i] raises IndexError when the list is shorter than
\* the list of children
transform_children(st, b, i) ==
    IF st.err \/ i > Len(st.blocks[b].children) THEN st
    ELSE IF i > Len(st.blocks[b].children_transforms)
    THEN [st EXCEPT !.err = TRUE]
    ELSE LET c == st.blocks[b].children[i]
             s1 == [st EXCEPT !.blocks[c].transforms =
                        @ \o st.blocks[b].children_transforms[i]
                          \o st.blocks[b].transforms]
         IN transform_children(transform(s1, c), b, i + 1)

\* transform that handles the Block's own points before its children
transform_self_first(st, b) ==
    LET s1 == transform_points(st, b)
        s2 == IF s1.err THEN s1 ELSE transform_curves_points(s1, b)
    IN IF s2.err THEN s2 ELSE transform_children(s2, b, 1)

transform(st, b) ==
    LET s1 == transform_children(st, b, 1)
        s2 == IF s1.err THEN s1 ELSE transform_points(s1, b)
    IN IF s2.err THEN s2 ELSE transform_curves_points(s2, b)

\* ------------------------------------------------------------------------
\* Parsing of the constructor arguments (static methods of Block).  A python
\* value is [kind, v]; a string is a sequence of characters.  A parse gives
\* [done, raised, value]: raised names the exception, "" when it returned.
\* ------------------------------------------------------------------------
PyNone == [kind |-> "none", v |-> 0]

Num(n) == [kind |-> "number", v |-> n]

Str(s) == [kind |-> "str", v |-> s]

List(l) == [kind |-> "list", v |-> l]

Dict == [kind |-> "dict", v |-> 0]

Returned(value) == [done |-> TRUE, raised |-> "", value |-> value]

Raised(exception) == [done |-> TRUE, raised |-> exception, value |-> <<>>]

Unparsed == [done |-> FALSE, raised |-> "", value |-> <<>>]

\* Coordinates are kept in halves of a unit, so that 0.5 * s is exact: the
\* literal n is stored as Lit(n), the product 0.5 * s of a number s as
\* HalfOf(s).
Lit(n) == 2 * n

HalfOf(s) == s

\* the 8 corners of the cuboid of half sizes a, b, c
Corners(a, b, c) ==
    << <<a, b, -c>>, <<-a, b, -c>>, <<-a, -b, -c>>, <<a, -b, -c>>,
       <<a, b, c>>, <<-a, b, c>>, <<-a, -b, c>>, <<a, -b, c>> >>

IsNumber(x) == x.kind = "number"

IsStr(x) == x.kind = "str"

\* Point.parse_points (point module): the coordinate lists become Points; a
\* trailing string names the coordinate system of all of them, a trailing
\* number their mesh size
Point_parse_points(coordinates, coordinate_system, mesh_size) ==
    [i \in DOMAIN coordinates |->
        [coordinates |-> coordinates[i],
         coordinate_system |-> coordinate_system,
         mesh_size |-> mesh_size]]

Cartesian == <<"c", "a", "r", "t", "e", "s", "i", "a", "n">>

\* parse_points that takes the number for the half size
parse_points_full_size(points) ==
    IF points.kind = "none"
    THEN Returned(Point_parse_points(
             Corners(Lit(1), Lit(1), Lit(1)), Cartesian, None))
    ELSE IF points.kind = "number"
    THEN Returned(Point_parse_points(
             Corners(Lit(points.v), Lit(points.v), Lit(points.v)),
             Cartesian, None))
    ELSE Raised("ValueError")

parse_points(points) ==
    IF points.kind = "none"
    THEN Returned(Point_parse_points(
             Corners(Lit(1), Lit(1), Lit(1)), Cartesian, None))
    ELSE IF points.kind = "number"
    THEN LET a == HalfOf(points.v)
         IN Returned(Point_parse_points(Corners(a, a, a), Cartesian, None))
    ELSE IF points.kind = "list"
    THEN LET l == points.v
         IN IF Len(l) = 0 THEN Returned(<<>>)
            ELSE IF Len(l) = 2 /\ IsNumber(l[1]) /\ IsStr(l[2])
            THEN LET a == HalfOf(l[1].v)
                 IN Returned(Point_parse_points(Corners(a, a, a), l[2].v, None))
            ELSE IF Len(l) = 3 /\ \A i \in 1..3 : IsNumber(l[i])
            THEN Returned(Point_parse_points(
                     Corners(HalfOf(l[1].v), HalfOf(l[2].v), HalfOf(l[3].v)),
                     Cartesian, None))
            ELSE IF /\ Len(l) = 4
                    /\ \A i \in 1..3 : IsNumber(l[i])
                    /\ IsStr(l[4])
            THEN Returned(Point_parse_points(
                     Corners(HalfOf(l[1].v), HalfOf(l[2].v), HalfOf(l[3].v)),
                     l[4].v, None))
            ELSE IF Len(l) = 4 /\ \A i \in 1..4 : IsNumber(l[i])
            THEN Returned(Point_parse_points(
                     Corners(HalfOf(l[1].v), HalfOf(l[2].v), HalfOf(l[3].v)),
                     Cartesian, Lit(l[4].v)))
            ELSE Returned(Point_parse_points(
                     [i \in DOMAIN l |-> [j \in 1..3 |-> Lit(l[i].v[j].v)]],
                     Cartesian, None))
    ELSE Raised("ValueError")

\* parse_zone: the default zone names of the 8 points, 12 curves, 6 surfaces
\* and the volume
default_ps_zs ==
    << <<"X", "_", "Y", "_", "N", "Z">>,
       <<"N", "_", "X", "Y", "_", "N", "Z">>,
       <<"N", "X", "_", "N", "Y", "_", "N", "Z">>,
       <<"X", "_", "N", "Y", "_", "N", "Z">>,
       <<"X", "_", "Y", "_", "Z">>,
       <<"N", "_", "X", "Y", "_", "Z">>,
       <<"N", "X", "_", "N", "Y", "_", "Z">>,
       <<"X", "_", "N", "Y", "_", "Z">> >>

default_cs_zs ==
    << <<"X", "1">>, <<"X", "2">>, <<"X", "3">>, <<"X", "4">>,
       <<"Y", "1">>, <<"Y", "2">>, <<"Y", "3">>, <<"Y", "4">>,
       <<"Z", "1">>, <<"Z", "2">>, <<"Z", "3">>, <<"Z", "4">> >>

default_ss_zs ==
    << <<"N", "X">>, <<"X">>, <<"N", "Y">>, <<"Y">>, <<"N", "Z">>, <<"Z">> >>

default_vs_zs == << <<"V">> >>

Zoning(ps_zs, cs_zs, ss_zs, vs_zs) ==
    [points_zones |-> ps_zs, curves_zones |-> cs_zs,
     surfaces_zones |-> ss_zs, volumes_zones |-> vs_zs]

parse_zone(zone) ==
    IF zone.kind = "none"
    THEN Returned(Zoning(default_ps_zs, default_cs_zs, default_ss_zs,
                         default_vs_zs))
    ELSE IF zone.kind = "str"
    THEN Returned(Zoning(default_ps_zs, default_cs_zs, default_ss_zs,
                         <<zone.v>>))
    ELSE IF zone.kind = "list"
    THEN LET l == zone.v
         IN Returned(Zoning(
                IF Len(l) > 3 THEN l[4] ELSE default_ps_zs,
                IF Len(l) > 2 THEN l[3] ELSE default_cs_zs,
                IF Len(l) > 1 THEN l[2] ELSE default_ss_zs,
                IF Len(l) > 0 THEN l[1] ELSE default_vs_zs))
    ELSE Raised("ValueError")

\* parse_structure_type: the corners of the 6 surfaces, and the branches of
\* the implemented codes in the order they are tested
surfaces_points ==
    << <<1, 5, 6, 2>>, <<0, 3, 7, 4>>, <<3, 2, 6, 7>>,
       <<0, 4, 5, 1>>, <<0, 1, 2, 3>>, <<4, 7, 6, 5>> >>

StructureType(code, surfaces_arrangement, volume_points) ==
    [code |-> code, surfaces_arrangement |-> surfaces_arrangement,
     volume_points |-> volume_points]

\* the branches with a corner repeated in the RRL branch
structure_types_repeated ==
    << StructureType(<<"L", "L", "L">>,
           <<"Left", "Left", "Left", "Left", "Left", "Left">>,
           <<0, 1, 2, 3, 4, 5, 6, 7>>),
       StructureType(<<"R", "R", "L">>,
           <<"Right", "Right", "Right", "Right", "Left", "Left">>,
           <<2, 3, 0, 1, 6, 7, 4, 4>>),
       StructureType(<<"L", "R", "R">>,
           <<"Left", "Left", "Right", "Right", "Right", "Right">>,
           <<1, 2, 3, 0, 5, 6, 7, 4>>),
       StructureType(<<"R", "L", "R">>,
           <<"Right", "Right", "Left", "Left", "Right", "Right">>,
           <<3, 0, 1, 2, 7, 4, 5, 6>>) >>

\* the branches with the arrangements of LRR and RLR exchanged
structure_types_exchanged ==
    << StructureType(<<"L", "L", "L">>,
           <<"Left", "Left", "Left", "Left", "Left", "Left">>,
           <<0, 1, 2, 3, 4, 5, 6, 7>>),
       StructureType(<<"R", "R", "L">>,
           <<"Right", "Right", "Right", "Right", "Left", "Left">>,
           <<2, 3, 0, 1, 6, 7, 4, 5>>),
       StructureType(<<"L", "R", "R">>,
           <<"Right", "Right", "Left", "Left", "Right", "Right">>,
           <<1, 2, 3, 0, 5, 6, 7, 4>>),
       StructureType(<<"R", "L", "R">>,
           <<"Left", "Left", "Right", "Right", "Right", "Right">>,
           <<3, 0, 1, 2, 7, 4, 5, 6>>) >>

structure_types ==
    << StructureType(<<"L", "L", "L">>,
           <<"Left", "Left", "Left", "Left", "Left", "Left">>,
           <<0, 1, 2, 3, 4, 5, 6, 7>>),
       StructureType(<<"R", "R", "L">>,
           <<"Right", "Right", "Right", "Right", "Left", "Left">>,
           <<2, 3, 0, 1, 6, 7, 4, 5>>),
       StructureType(<<"L", "R", "R">>,
           <<"Left", "Left", "Right", "Right", "Right", "Right">>,
           <<1, 2, 3, 0, 5, 6, 7, 4>>),
       StructureType(<<"R", "L", "R">>,
           <<"Right", "Right", "Left", "Left", "Right", "Right">>,
           <<3, 0, 1, 2, 7, 4, 5, 6>>) >>

\* the list the last elif tests membership in: the adjacent literals
\* 'LLR' 'RRR' are one string
not_implemented_types ==
    << <<"R", "L", "L">>, <<"L", "R", "L">>,
       <<"L", "L", "R">> \o <<"R", "R", "R">> >>

parse_structure_type(structure_type) ==
    LET found == {i \in DOMAIN structure_types :
                     structure_types[i].code = structure_type}
    IN IF found # {}
       THEN Returned(
                [surfaces_arrangement |->
                     structure_types[Min(found)].surfaces_arrangement,
                 surfaces_points |-> surfaces_points,
                 volume_points |-> structure_types[Min(found)].volume_points])
       ELSE IF structure_type \in Range(not_implemented_types)
       THEN Raised("NotImplementedError")
       ELSE Raised("ValueError")

\* the constructor's defaults of points, zone and structure_type, nothing
\* parsed yet
NoArgs ==
    [points |-> PyNone, zone |-> PyNone, structure_type |-> <<"L", "L", "L">>]

NoParsed ==
    [points |-> Unparsed, zone |-> Unparsed, structure_type |-> Unparsed]

\* python truth value: None, 0, '' and [] are false
Falsy(x) ==
    \/ x.kind = "none"
    \/ x.kind = "number" /\ x.v = 0
    \/ x.kind \in {"str", "list"} /\ x.v = <<>>

\* values[0], values[1], values[2] of one entry of structure
CurveStructure(values) ==
    Structure("curve", Kwargs(values.v[1].v, values.v[2].v, values.v[3].v,
                              <<>>, ""))

Structures(cs_ss, ss_ss, vs_ss) ==
    [curves_structures |-> cs_ss, surfaces_structures |-> ss_ss,
     volumes_structures |-> vs_ss]

\* parse_structure: one entry gives ONE curve Structure, three entries give
\* four per axis (none for an axis given as None)
parse_structure(structure) ==
    LET l == structure.v
        ss_ss == [i \in 1..6 |-> Structure("surface", NoKwargs)]
        vs_ss == <<Structure("volume", NoKwargs)>>
    IN IF Falsy(structure)
       THEN Returned(Structures([i \in 1..12 |-> NoStructure],
                                [i \in 1..6 |-> NoStructure], <<NoStructure>>))
       ELSE IF structure.kind = "list"
       THEN IF Len(l) = 1
            THEN IF l[1].kind # "list" THEN Raised("TypeError")
                 ELSE IF Len(l[1].v) < 3 THEN Raised("IndexError")
                 ELSE Returned(Structures(<<CurveStructure(l[1])>>, ss_ss,
                                          vs_ss))
            ELSE IF Len(l) = 3
            THEN IF \E i \in 1..3 : l[i].kind \notin {"list", "none"}
                 THEN Raised("ValueError")
                 ELSE IF \E i \in 1..3 : l[i].kind = "list" /\ Len(l[i].v) < 3
                 THEN Raised("IndexError")
                 ELSE Returned(Structures(
                          [i \in 1..12 |->
                              IF l[1 + (i - 1) \div 4].kind = "none"
                              THEN NoStructure
                              ELSE CurveStructure(l[1 + (i - 1) \div 4])],
                          ss_ss, vs_ss))
            ELSE Raised("ValueError")
       ELSE Raised("ValueError")

parse_quadrate(quadrate) ==
    IF Falsy(quadrate) THEN Returned([i \in 1..6 |-> NoQuadrate])
    ELSE Returned([i \in 1..6 |-> Quadrate("surface")])

\* transform_factory (transform module): the names it has a transform for
transform_factory == {"translate", "rotate", "block_to_cartesian"}

\* the name parse_transforms finds for one entry t of transforms, or the
\* exception it raises on it; a transform name is kept as one string, and
\* the dict is the one without the key 'name'
TransformName(t, parent) ==
    LET name == IF t.kind = "str" THEN Returned(t.v)
                ELSE IF t.kind = "list"
                THEN IF Len(t.v) = 3 THEN Returned("translate")
                     ELSE IF Len(t.v) \in {4, 7} THEN Returned("rotate")
                     ELSE Raised("ValueError")
                ELSE IF t.kind = "dict" THEN Raised("KeyError")
                ELSE Raised("ValueError")
    IN IF name.raised # "" THEN name
       ELSE IF name.value \notin transform_factory THEN Raised("KeyError")
       ELSE IF name.value = "block_to_cartesian" /\ parent = None
       THEN Raised("AttributeError")
       ELSE name

\* parse_transforms: the transforms of the entries in order, or the
\* exception of the first entry that raises; by names the Block the
\* transforms are declared for
parse_transforms(transforms, parent, by) ==
    IF transforms.kind = "none" THEN Returned(<<>>)
    ELSE LET ts == transforms.v
             bad == {i \in DOMAIN ts : TransformName(ts[i], parent).raised # ""}
         IN IF bad # {} THEN Raised(TransformName(ts[Min(bad)], parent).raised)
            ELSE Returned([i \in DOMAIN ts |->
                     Transformation(TransformName(ts[i], parent).value, by)])

\* Block.add_child: the child is appended, then the transforms given for it
\* are parsed against the Block's own parent and appended; the child's
\* parent field is not touched
add_child(st, b, child, transforms) ==
    LET given == IF transforms.kind = "none" THEN List(<<>>) ELSE transforms
        s1 == [st EXCEPT !.blocks[b].children = Append(@, child)]
        new == parse_transforms(given, s1.blocks[b].parent, child)
    IN IF new.raised # "" THEN [s1 EXCEPT !.err = TRUE]
       ELSE [s1 EXCEPT !.blocks[b].children_transforms = Append(@, new.value)]

\* ------------------------------------------------------------------------
\* Construction: Block.__init__
\* ------------------------------------------------------------------------
\* a Point of a Block, as transform() sees it: its coordinate system
\* ("cartesian" or "block"), the parent corner coordinates its Block
\* coordinate system was last anchored to, and its coordinates, kept as the
\* list of the transforms applied to the declared ones so far
NewPoint(coordinate_system) ==
    [coordinate_system |-> coordinate_system, ps |-> <<>>, applied |-> <<>>]

Separators == {<<"-">>, <<"_">>}

Zones == {<<"A">>, <<"A", "-", "B">>, <<"A", "_", "B">>}

NewBlock(parent, children, do_register, do_register_children, boolean_level, do_unregister, do_unregister_children, do_unregister_boolean, do_unregister_boolean_children, zone) ==
    [parent |-> parent,
     children |-> children,
     do_register |-> do_register,
     do_register_children |-> do_register_children,
     boolean_level |-> boolean_level,
     do_unregister |-> do_unregister,
     do_unregister_children |-> do_unregister_children,
     do_unregister_boolean |-> do_unregister_boolean,
     do_unregister_boolean_children |-> do_unregister_boolean_children,
     zone |-> zone,
     points |-> [i \in 1..8 |-> None],
     curves |-> [i \in 1..12 |-> None],
     curves_chain |-> [i \in 1..12 |-> <<>>],
     curves_loops |-> [i \in 1..6 |-> None],
     surfaces |-> [i \in 1..6 |-> None],
     surfaces_loops |-> <<None>>,
     volume |-> None,
     volume_surfaces_loops |-> <<>>,
     is_registered |-> FALSE,
     transforms |-> <<>>,
     children_transforms |-> [i \in DOMAIN children |-> <<>>],
     coordinates |-> [i \in 1..8 |-> NewPoint("cartesian")],
     curves_coordinates |-> [i \in 1..12 |-> <<>>],
     curves_structures |-> parse_structure(PyNone).value.curves_structures,
     surfaces_structures |-> parse_structure(PyNone).value.surfaces_structures,
     volumes_structures |-> parse_structure(PyNone).value.volumes_structures,
     surfaces_quadrates |-> parse_quadrate(PyNone).value,
     surfaces_arrangement |->
         parse_structure_type(<<"L", "L", "L">>).value.surfaces_arrangement,
     surfaces_points |->
         parse_structure_type(<<"L", "L", "L">>).value.surfaces_points,
     volume_points |->
         parse_structure_type(<<"L", "L", "L">>).value.volume_points]

\* the Block constructed with the arguments structure and quadrate, and
\* with curves holding the given numbers of interior points
Structured(block, structure, quadrate, interior) ==
    [block EXCEPT
        !.curves_structures = parse_structure(structure).value.curves_structures,
        !.surfaces_structures =
            parse_structure(structure).value.surfaces_structures,
        !.volumes_structures =
            parse_structure(structure).value.volumes_structures,
        !.surfaces_quadrates = parse_quadrate(quadrate).value,
        !.curves_chain = [i \in 1..12 |-> [j \in 1..interior[i] |-> None]],
        !.curves_coordinates =
            [i \in 1..12 |-> [j \in 1..interior[i] |-> NewPoint("cartesian")]]]

\* the trees a caller builds: every Block but the first is constructed with
\* an earlier Block as parent or with none, and a parent is given the list
\* of the Blocks constructed for it as children
Parents == {pr \in [Blocks -> {None} \cup Blocks] : \A b \in Blocks : pr[b] < b}

ChildrenOf(pr, p) == SortedSeq({b \in Blocks : pr[b] = p})

State(e) == [blocks |-> blocks, kernel |-> kernel, shared |-> shared,
             err |-> e]

\* ------------------------------------------------------------------------
\* Traversal: Block.__iter__, Block.__len__, Block.make_tree
\* ------------------------------------------------------------------------
RECURSIVE iter(_, _)

RECURSIVE iter_children(_, _, _)
iter_children(bs, b, i) ==
    IF i > Len(bs[b].children) THEN <<>>
    ELSE iter(bs, bs[b].children[i]) \o iter_children(bs, b, i + 1)

\* the traversal that yields the Block after its children
iter_children_first(bs, b) == iter_children(bs, b, 1) \o <<b>>

iter(bs, b) == <<b>> \o iter_children(bs, b, 1)

len(bs, b) == Len(iter(bs, b))

make_tree(bs, b) ==
    LET order == iter(bs, b)
    IN [k \in {bs[order[i]].parent : i \in DOMAIN order} |->
           SelectSeq(order, LAMBDA x : bs[x].parent = k)]

NoWalk == [op |-> "", root |-> None, order |-> <<>>, len |-> 0, tree |-> <<>>]

\* ------------------------------------------------------------------------
\* Operations a caller invokes on a Block.  call records the last one: the
\* method, whether it raised, and how many calls the kernel had received
\* before it.
\* ------------------------------------------------------------------------
Call(op, err) == [op |-> op, raised |-> err, before |-> Len(kernel)]

NoCall == [op |-> "", raised |-> FALSE, before |-> 0]

Register(b) ==
    /\ ncalls < MaxCalls
    /\ LET s == register(State(FALSE), b)
       IN /\ blocks' = s.blocks
          /\ kernel' = s.kernel
          /\ call' = Call("register", s.err)
    /\ ncalls' = ncalls + 1
    /\ UNCHANGED <<shared, volumes_surfaces, surfaces_groups, args, parsed, walk>>

Unregister(b, sep) ==
    /\ ncalls < MaxCalls
    /\ LET s == unregister(State(FALSE), b, sep)
       IN /\ blocks' = s.blocks
          /\ kernel' = s.kernel
          /\ call' = Call("unregister", s.err)
    /\ ncalls' = ncalls + 1
    /\ UNCHANGED <<shared, volumes_surfaces, surfaces_groups, args, parsed, walk>>

UnregisterBoolean(b, sep) ==
    /\ ncalls < MaxCalls
    /\ LET s == unregister_boolean(State(FALSE), b, sep)
       IN /\ blocks' = s.blocks
          /\ kernel' = s.kernel
          /\ call' = Call("unregister_boolean", s.err)
    /\ ncalls' = ncalls + 1
    /\ UNCHANGED <<shared, volumes_surfaces, surfaces_groups, args, parsed, walk>>

AddChild(b, child, transforms) ==
    /\ ncalls < MaxCalls
    /\ b < child
    /\ Len(blocks[b].children) < MaxChildren
    /\ LET s == add_child(State(FALSE), b, child, transforms)
       IN /\ blocks' = s.blocks
          /\ kernel' = s.kernel
          /\ call' = Call("add_child", s.err)
    /\ ncalls' = ncalls + 1
    /\ UNCHANGED <<shared, volumes_surfaces, surfaces_groups, args, parsed, walk>>

Group ==
    /\ call.op = ""
    /\ surfaces_groups' =
           volumes_surfaces_to_volumes_groups_surfaces(volumes_surfaces)
    /\ call' = Call("group", FALSE)
    /\ UNCHANGED <<blocks, kernel, shared, ncalls, volumes_surfaces, args, parsed,
                 walk>>

Next ==
    \/ \E b \in Blocks : Register(b)
    \/ \E b \in Blocks, sep \in Separators : Unregister(b, sep)
    \/ \E b \in Blocks, sep \in Separators : UnregisterBoolean(b, sep)
    \/ \E b \in Blocks, child \in Blocks : AddChild(b, child, PyNone)

\* Registration of trees: the second Block is a child of the first, the
\* last one a child of either or constructed apart.  Every Block takes part
\* in unregistration (do_unregister, do_unregister_boolean set) with a
\* simple zone name; the last Block never gets children, so its
\* do_register_children and boolean_level are left at their defaults.  The
\* X face of Block 2 and the NX face of Block 3 may coincide when the two
\* can be children of one Block.
Init ==
    /\ \E pr \in Parents,
          dr \in [Blocks -> BOOLEAN],
          drc \in [Blocks -> BOOLEAN],
          bl \in [Blocks -> {None, 1}] :
          /\ drc[MaxBlocks] /\ bl[MaxBlocks] = None
          /\ pr[2] = 1
          /\ shared \in IF pr[MaxBlocks] = 2 THEN {{}}
                        ELSE {{}, {<< <<2, 1>>, <<3, 0>> >>}}
          /\ blocks = [b \in Blocks |->
                          NewBlock(pr[b], ChildrenOf(pr, b), dr[b], drc[b],
                                   bl[b], TRUE, TRUE, TRUE, TRUE, <<"A">>)]
    /\ kernel = <<>>
    /\ call = NoCall
    /\ ncalls = 0
    /\ volumes_surfaces = <<>>
    /\ surfaces_groups = <<>>
    /\ args = NoArgs
    /\ parsed = NoParsed
    /\ walk = NoWalk

Spec == Init /\ [][Next]_vars

\* Unregistration of a parent and its child, both registering: each takes
\* every zone and its own do_unregister and do_unregister_boolean; the
\* boolean level is one for both and the parent recurses into the child in
\* both passes or in neither.  Further Blocks are constructed apart with
\* do_register off and the defaults (zone 'V').
InitUnregister ==
    /\ \E zn \in [1..2 -> Zones],
          bl \in {None, 1},
          du \in [1..2 -> BOOLEAN],
          dub \in [1..2 -> BOOLEAN],
          duc \in BOOLEAN :
          blocks = [b \in Blocks |->
             IF b = 1
             THEN NewBlock(None, <<2>>, TRUE, TRUE, bl, du[b], duc,
                           dub[b], duc, zn[b])
             ELSE IF b = 2
             THEN NewBlock(1, <<>>, TRUE, TRUE, bl, du[b], TRUE,
                           dub[b], TRUE, zn[b])
             ELSE NewBlock(None, <<>>, FALSE, TRUE, None, FALSE, TRUE, FALSE,
                           TRUE, <<"V">>)]
    /\ kernel = <<>>
    /\ shared = {}
    /\ call = NoCall
    /\ ncalls = 0
    /\ volumes_surfaces = <<>>
    /\ surfaces_groups = <<>>
    /\ args = NoArgs
    /\ parsed = NoParsed
    /\ walk = NoWalk

SpecUnregister == InitUnregister /\ [][Next]_vars

\* Boolean grouping on its own: up to MaxLists face-tag lists of one or two
\* tags out of 1..MaxTag, and the lists of the documented example.
TagLists == UNION {[1..n -> 1..MaxTag] : n \in 1..2}

Example == << <<1, 2, 3>>, <<3, 4, 5>>, <<9, 10>> >>

InitGroup ==
    /\ blocks = [b \in Blocks |->
                    NewBlock(None, <<>>, TRUE, TRUE, None, FALSE, TRUE, FALSE,
                             TRUE, <<"V">>)]
    /\ kernel = <<>>
    /\ shared = {}
    /\ call = NoCall
    /\ ncalls = 0
    /\ volumes_surfaces \in
           UNION {[1..n -> TagLists] : n \in 0..MaxLists} \cup {Example}
    /\ surfaces_groups = <<>>
    /\ args = NoArgs
    /\ parsed = NoParsed
    /\ walk = NoWalk

NextGroup == Group

SpecGroup == InitGroup /\ [][NextGroup]_vars

\* ------------------------------------------------------------------------
\* The static parse methods of the constructor, each applied to its argument
\* ------------------------------------------------------------------------
ParsePoints ==
    /\ ~parsed.points.done
    /\ parsed' = [parsed EXCEPT !.points = parse_points(args.points)]
    /\ UNCHANGED <<blocks, kernel, shared, call, ncalls, volumes_surfaces,
                   surfaces_groups, args, walk>>

ParseZone ==
    /\ ~parsed.zone.done
    /\ parsed' = [parsed EXCEPT !.zone = parse_zone(args.zone)]
    /\ UNCHANGED <<blocks, kernel, shared, call, ncalls, volumes_surfaces,
                   surfaces_groups, args, walk>>

ParseStructureType ==
    /\ ~parsed.structure_type.done
    /\ parsed' = [parsed EXCEPT !.structure_type =
                      parse_structure_type(args.structure_type)]
    /\ UNCHANGED <<blocks, kernel, shared, call, ncalls, volumes_surfaces,
                   surfaces_groups, args, walk>>

MaxSize == 3

Sizes == (0 - 1)..MaxSize

BlockCSName == <<"b", "l", "o", "c", "k">>

PointsArgs ==
    {PyNone, Dict, Str(<<"2">>), List(<<>>)}
    \cup {Num(n) : n \in Sizes}
    \cup {List(<<Num(n), Str(BlockCSName)>>) : n \in Sizes}
    \cup {List(<<Num(l[1]), Num(l[2]), Num(l[3])>>) : l \in [1..3 -> 1..2]}
    \cup {List(<<Num(1), Num(2), Num(3), Str(BlockCSName)>>),
          List(<<Num(1), Num(2), Num(3), Num(1)>>),
          List([i \in 1..8 |->
                   List([j \in 1..3 |-> Num(default_points[i][j])])])}

ZoneArgs ==
    {PyNone, Dict, Num(1), Str(<<"A">>), List(<<>>),
     List(<< << <<"W">> >> >>),
     List(<< << <<"W">> >>, default_ss_zs, default_cs_zs, default_cs_zs >>)}

StructureTypeArgs ==
    [1..3 -> {"L", "R"}]
    \cup {<<>>, <<"L", "L">>, <<"X", "Y", "Z">>, <<"l", "l", "l">>,
          <<"L", "L", "R", "R", "R", "R">>}

InitParse ==
    /\ blocks = [b \in Blocks |->
                    NewBlock(None, <<>>, TRUE, TRUE, None, FALSE, TRUE, FALSE,
                             TRUE, <<"V">>)]
    /\ kernel = <<>>
    /\ shared = {}
    /\ call = NoCall
    /\ ncalls = 0
    /\ volumes_surfaces = <<>>
    /\ surfaces_groups = <<>>
    /\ args \in [points : PointsArgs, zone : ZoneArgs,
                 structure_type : StructureTypeArgs]
    /\ parsed = NoParsed
    /\ walk = NoWalk

NextParse == ParsePoints \/ ParseZone \/ ParseStructureType

SpecParse == InitParse /\ [][NextParse]_vars

\* ------------------------------------------------------------------------
\* Traversal of the trees a caller builds with the constructor and add_child
\* ------------------------------------------------------------------------
Iterate(b) ==
    /\ walk' = [op |-> "iter", root |-> b, order |-> iter(blocks, b),
                len |-> len(blocks, b), tree |-> <<>>]
    /\ UNCHANGED <<blocks, kernel, shared, call, ncalls, volumes_surfaces,
                   surfaces_groups, args, parsed>>

MakeTree(b) ==
    /\ walk' = [op |-> "make_tree", root |-> b, order |-> <<>>, len |-> 0,
                tree |-> make_tree(blocks, b)]
    /\ UNCHANGED <<blocks, kernel, shared, call, ncalls, volumes_surfaces,
                   surfaces_groups, args, parsed>>

MaxNodes == 4

Nodes == 1..MaxNodes

\* as Parents, for the Blocks of the traversed trees
NodesParents ==
    {pr \in [Nodes -> {None} \cup Nodes] : \A b \in Nodes : pr[b] < b}

InitTree ==
    /\ \E pr \in NodesParents :
          blocks = [b \in Nodes |->
                       NewBlock(pr[b], SortedSeq({c \in Nodes : pr[c] = b}),
                                TRUE, TRUE, None, FALSE, TRUE, FALSE, TRUE,
                                <<"V">>)]
    /\ kernel = <<>>
    /\ shared = {}
    /\ call = NoCall
    /\ ncalls = 0
    /\ volumes_surfaces = <<>>
    /\ surfaces_groups = <<>>
    /\ args = NoArgs
    /\ parsed = NoParsed
    /\ walk = NoWalk

\* add_child calls made on a constructed tree
MaxAdds == 1

NextTree ==
    \/ \E b \in Nodes, child \in Nodes : ncalls < MaxAdds /\ AddChild(b, child, PyNone)
    \/ \E b \in Nodes : Iterate(b)
    \/ \E b \in Nodes : MakeTree(b)

SpecTree == InitTree /\ [][NextTree]_vars

\* ------------------------------------------------------------------------
\* Transformation of the trees a caller builds
\* ------------------------------------------------------------------------
Transform(b) ==
    /\ ncalls < MaxCalls
    /\ LET s == transform(State(FALSE), b)
       IN /\ blocks' = s.blocks
          /\ kernel' = s.kernel
          /\ call' = Call("transform", s.err)
    /\ ncalls' = ncalls + 1
    /\ UNCHANGED <<shared, volumes_surfaces, surfaces_groups, args, parsed, walk>>

\* the corner and the curve a Block-relative point is declared at
RelativeCorner == 3

RelativeCurve == 2

\* Trees of Parents.  The children either were constructed with their
\* parent (back) or were handed to the parent's constructor as its children
\* argument, their own parent left None.  The first Block declares one
\* transform or none, the others one, the last possibly a coordinate-system
\* change before it; a parent declares one transform for each child or none
\* for any (declared).  A Block has no Block-relative point or (the first
\* two and the last) one corner, or (the last) one interior point of one
\* curve.
InitTransform ==
    /\ \E pr \in Parents,
          back \in BOOLEAN,
          own \in BOOLEAN,
          change \in BOOLEAN,
          declared \in BOOLEAN,
          relative \in [Blocks -> {"none", "corner", "curve"}] :
          /\ \A b \in Blocks :
                 /\ relative[b] = "curve" => b = MaxBlocks
                 /\ relative[b] = "corner" => b <= 2 \/ b = MaxBlocks
          /\ blocks = [b \in Blocks |->
               [NewBlock(IF back THEN pr[b] ELSE None, ChildrenOf(pr, b),
                         TRUE, TRUE, None, FALSE, TRUE, FALSE, TRUE, <<"V">>)
                EXCEPT
                   !.transforms =
                       IF b = 1 /\ ~own THEN <<>>
                       ELSE IF b = MaxBlocks /\ change
                       THEN <<Transformation("block_to_cartesian", b),
                              Transformation("translate", b)>>
                       ELSE <<Transformation("translate", b)>>,
                   !.children_transforms =
                       [i \in DOMAIN @ |->
                           IF declared
                           THEN <<Transformation("rotate",
                                                 ChildrenOf(pr, b)[i])>>
                           ELSE <<>>],
                   !.coordinates[RelativeCorner] =
                       IF relative[b] = "corner" THEN NewPoint("block")
                       ELSE @,
                   !.curves_coordinates[RelativeCurve] =
                       IF relative[b] = "curve"
                       THEN <<NewPoint("cartesian"), NewPoint("block")>>
                       ELSE @]]
    /\ kernel = <<>>
    /\ shared = {}
    /\ call = NoCall
    /\ ncalls = 0
    /\ volumes_surfaces = <<>>
    /\ surfaces_groups = <<>>
    /\ args = NoArgs
    /\ parsed = NoParsed
    /\ walk = NoWalk

\* transform() calls made on a constructed tree
MaxTransforms == 2

NextTransform == \E b \in Blocks : ncalls < MaxTransforms /\ Transform(b)

SpecTransform == InitTransform /\ [][NextTransform]_vars

\* ------------------------------------------------------------------------
\* Registration of Blocks with structure and quadrate directives and with
\* interior points on their curves
\* ------------------------------------------------------------------------
\* one entry of structure: [nPoints, meshType, coef]
StructureValues == List(<<Num(5), Num(0), Num(1)>>)

StructureArgs ==
    {PyNone,
     List(<<StructureValues>>),
     List(<<StructureValues, PyNone, StructureValues>>)}

QuadrateArgs == {PyNone, Num(1)}

\* interior points of the first curve of a Block
MaxInterior == 1

\* A parent and its child, both with every structure and quadrate, the
\* parent recursing into the child or not and with up to MaxInterior
\* interior points on its first curve; further Blocks are constructed apart
\* with the defaults.
InitStructure ==
    /\ \E sa \in [1..2 -> StructureArgs],
          qa \in [1..2 -> QuadrateArgs],
          drc \in BOOLEAN,
          n \in 0..MaxInterior :
          blocks = [b \in Blocks |->
             IF b = 1
             THEN Structured(NewBlock(None, <<2>>, TRUE, drc, None, FALSE,
                                      TRUE, FALSE, TRUE, <<"V">>),
                             sa[b], qa[b],
                             [i \in 1..12 |-> IF i = 1 THEN n ELSE 0])
             ELSE IF b = 2
             THEN Structured(NewBlock(1, <<>>, TRUE, TRUE, None, FALSE,
                                      TRUE, FALSE, TRUE, <<"V">>),
                             sa[b], qa[b], [i \in 1..12 |-> 0])
             ELSE NewBlock(None, <<>>, TRUE, TRUE, None, FALSE, TRUE, FALSE,
                           TRUE, <<"V">>)]
    /\ kernel = <<>>
    /\ shared = {}
    /\ call = NoCall
    /\ ncalls = 0
    /\ volumes_surfaces = <<>>
    /\ surfaces_groups = <<>>
    /\ args = NoArgs
    /\ parsed = NoParsed
    /\ walk = NoWalk

NextStructure == \E b \in Blocks : Register(b)

SpecStructure == InitStructure /\ [][NextStructure]_vars

\* ------------------------------------------------------------------------
\* Unregistration by a caller that passes one separator, other than the
\* default, to every unregister() and unregister_boolean() call
\* ------------------------------------------------------------------------
CallerSeparator == <<"_">>

NextSeparator ==
    \/ \E b \in Blocks : Register(b)
    \/ \E b \in Blocks : Unregister(b, CallerSeparator)
    \/ \E b \in Blocks : UnregisterBoolean(b, CallerSeparator)

SpecSeparator == InitUnregister /\ [][NextSeparator]_vars

\* ------------------------------------------------------------------------
\* Trees grown with add_child and then transformed
\* ------------------------------------------------------------------------
\* the transforms argument of add_child: none, the empty list, a
\* translation and a coordinate-system change by name, a translation as a
\* list of 3 numbers, and the malformed ones: a list of 2 numbers, a name
\* the factory does not have, a number, a dict without a name
Delta == List(<<Num(1), Num(0), Num(0)>>)

TransformsArgs ==
    {PyNone, List(<<>>),
     List(<<Str("translate")>>),
     List(<<Str("block_to_cartesian")>>),
     List(<<Delta, Str("rotate")>>),
     List(<<Delta, List(<<Num(1), Num(0)>>)>>),
     List(<<Str("scale")>>),
     List(<<Num(1)>>),
     List(<<Dict>>)}

\* Blocks constructed with children_transforms=None: the second one with
\* the first as parent or apart, the first with the second as its child or
\* with no children
InitChildren ==
    /\ \E pr \in {None, 1}, given \in BOOLEAN :
          blocks = [b \in Blocks |->
              NewBlock(IF b = 2 THEN pr ELSE None,
                       IF b = 1 /\ given THEN <<2>> ELSE <<>>,
                       TRUE, TRUE, None, FALSE, TRUE, FALSE, TRUE, <<"V">>)]
    /\ kernel = <<>>
    /\ shared = {}
    /\ call = NoCall
    /\ ncalls = 0
    /\ volumes_surfaces = <<>>
    /\ surfaces_groups = <<>>
    /\ args = NoArgs
    /\ parsed = NoParsed
    /\ walk = NoWalk

NextChildren ==
    \/ \E b \in Blocks, child \in Blocks, transforms \in TransformsArgs :
           AddChild(b, child, transforms)
    \/ \E b \in Blocks : Transform(b)

SpecChildren == InitChildren /\ [][NextChildren]_vars

\* ------------------------------------------------------------------------
\* transform() called again and again on the root of a constructed tree
\* ------------------------------------------------------------------------
NextRoot == ncalls < MaxTransforms /\ Transform(1)

SpecRoot == InitTransform /\ [][NextRoot]_vars

\* ------------------------------------------------------------------------
\* Matrix (src/matrix.py): the grid of Blocks made from three rows of cells.
\* A row is kept as its cells, the entries after the start coordinate; only
\* the bookkeeping of indices is modelled, not the coordinates.  A cell is
\* a number, or a string 'c:n' (n nodes, n - 1 new cells) or 'c:n:a:b' (n
\* new cells).  A dict is kept as the sequence of its values in insertion
\* order, its keys being 0, 1, 2, ... in that order.
\* ------------------------------------------------------------------------
Digits == <<"0", "1", "2", "3", "4", "5", "6", "7", "8", "9">>

DigitOf(ch) == (CHOOSE d \in 1..10 : Digits[d] = ch) - 1

\* int(s) of a string of digits
RECURSIVE int(_)
int(s) ==
    IF s = <<>> THEN 0
    ELSE 10 * int(SubSeq(s, 1, Len(s) - 1)) + DigitOf(s[Len(s)])

\* s.split(sep)
RECURSIVE split(_, _)
split(s, sep) ==
    LET at == {i \in DOMAIN s : s[i] = sep}
    IN IF at = {} THEN <<s>>
       ELSE <<SubSeq(s, 1, Min(at) - 1)>>
                \o split(SubSeq(s, Min(at) + 1, Len(s)), sep)

\* the number of coordinates one cell appends to new_cs, or the exception
\* it raises; np.linspace(cur_c, new_c, n)[1:] has n - 1 values (none for
\* n = 0), and a cell that is neither number nor string appends none
NewCells(c) ==
    IF c.kind = "number" THEN Returned(1)
    ELSE IF c.kind = "str"
    THEN LET vs == split(c.v, ":")
         IN IF Len(vs) = 2
            THEN Returned(IF int(vs[2]) > 0 THEN int(vs[2]) - 1 ELSE 0)
            ELSE IF Len(vs) = 4 THEN Returned(int(vs[2]))
            ELSE Raised("ValueError")
    ELSE Returned(0)

\* new2old of one row: for each new cell, in order, the column of the cell
\* it came from
RECURSIVE row_new2old(_, _)
row_new2old(cs, col_i) ==
    IF col_i >= Len(cs) THEN <<>>
    ELSE [j \in 1..NewCells(cs[col_i + 1]).value |-> col_i]
             \o row_new2old(cs, col_i + 1)

\* parse_matrix_points, second result: new2old_g2g, the old global index of
\* each generated Block in the order the Blocks are generated (parameter
\* set, then z, then y, then x).  Rows after the first three are parameter
\* rows, expanded by 'trace': one parameter set per coordinate of the
\* shortest of them.
parse_matrix_points(points) ==
    LET bad == {r \in DOMAIN points :
                   \E i \in DOMAIN points[r] :
                       NewCells(points[r][i]).raised # ""}
        rows_new2old == [r \in DOMAIN points |-> row_new2old(points[r], 0)]
        params == IF Len(points) = 3 THEN 1
                  ELSE Min({Len(rows_new2old[r]) + 1 :
                               r \in 4..Len(points)})
        old_nx == Len(points[1])
        old_ny == Len(points[2])
        old_nz == Len(points[3])
        nx == Len(rows_new2old[1])
        ny == Len(rows_new2old[2])
        nz == Len(rows_new2old[3])
        old_gi(new_gi) ==
            LET pi == new_gi \div (nx * ny * nz)
                zi == (new_gi % (nx * ny * nz)) \div (ny * nx)
                yi == (new_gi % (ny * nx)) \div nx
                xi == new_gi % nx
            IN pi * old_nx * old_ny * old_nz
               + rows_new2old[3][zi + 1] * old_ny * old_nx
               + rows_new2old[2][yi + 1] * old_nx
               + rows_new2old[1][xi + 1]
    IN IF bad # {} THEN Raised("ValueError")
       ELSE Returned([new_gi \in 1..(params * nx * ny * nz) |->
                         old_gi(new_gi - 1)])

\* parse_map that takes the entries of a list map in the list's own order
parse_map_in_order(m, default, new2old) ==
    IF m.kind = "none" THEN Returned([i \in DOMAIN new2old |-> default])
    ELSE IF m.kind # "list" THEN Returned([i \in DOMAIN new2old |-> m])
    ELSE IF Len(new2old) > Len(m.v) THEN Raised("IndexError")
    ELSE Returned([i \in DOMAIN new2old |-> m.v[i]])

\* parse_map: m[old_i] raises IndexError for an old index the list lacks
parse_map(m, default, new2old) ==
    IF m.kind = "none" THEN Returned([i \in DOMAIN new2old |-> default])
    ELSE IF m.kind # "list" THEN Returned([i \in DOMAIN new2old |-> m])
    ELSE IF \E i \in DOMAIN new2old : new2old[i] + 1 > Len(m.v)
    THEN Raised("IndexError")
    ELSE Returned([i \in DOMAIN new2old |-> m.v[new2old[i] + 1]])

\* Matrix.__init__: the points are parsed, then the map against new2old
ParseMap ==
    /\ ~parsed.done
    /\ LET new2old == parse_matrix_points(args.points)
       IN parsed' = IF new2old.raised # "" THEN new2old
                    ELSE parse_map(args.m, args.default, new2old.value)
    /\ UNCHANGED <<blocks, kernel, shared, call, ncalls, volumes_surfaces,
                   surfaces_groups, args, walk>>

\* cells per row of the x axis, and nodes of a subdivided cell
MaxCells == 2

MaxDivision == 3

Subdivided(n) == Str(<<"1", ":", Digits[n + 1]>>)

Cells ==
    {Num(1), PyNone, Str(<<"1", ":", "2", ":", "1", ":", "1">>),
     Str(<<"1", ":", "2", ":", "1">>)}
    \cup {Subdivided(n) : n \in 0..MaxDivision}

\* the old cells of a grid of the given rows with the given parameter rows
OldCells(points) ==
    (IF Len(points) = 3 THEN 1 ELSE Len(points[4]) + 1)
    * Len(points[1]) * Len(points[2]) * Len(points[3])

\* Every row of up to MaxCells cells for x, a few rows for y and z, and no
\* or one parameter row of one cell; the map is None, a scalar, or a list
\* with one value per old cell, each value naming its cell.
InitMatrix ==
    /\ blocks = [b \in Blocks |->
                    NewBlock(None, <<>>, TRUE, TRUE, None, FALSE, TRUE, FALSE,
                             TRUE, <<"V">>)]
    /\ kernel = <<>>
    /\ shared = {}
    /\ call = NoCall
    /\ ncalls = 0
    /\ volumes_surfaces = <<>>
    /\ surfaces_groups = <<>>
    /\ \E xs \in UNION {[1..n -> Cells] : n \in 1..MaxCells},
          ys \in {<<Num(1)>>, <<Subdivided(3)>>, <<Num(1), Subdivided(3)>>},
          zs \in {<<Num(1)>>, <<Subdivided(3), Num(2)>>},
          ps \in {<<>>, <<Num(1)>>},
          form \in {"none", "scalar", "list"} :
          LET points == IF ps = <<>> THEN <<xs, ys, zs>>
                        ELSE <<xs, ys, zs, ps>>
          IN args = [points |-> points,
                     default |-> Num(0),
                     m |-> IF form = "none" THEN PyNone
                           ELSE IF form = "scalar" THEN Num(7)
                           ELSE List([g \in 1..OldCells(points) |->
                                         Num(100 + g)])]
    /\ parsed = Unparsed
    /\ walk = NoWalk

NextMatrix == ParseMap

SpecMatrix == InitMatrix /\ [][NextMatrix]_vars

\* ------------------------------------------------------------------------
\* Properties
\* ------------------------------------------------------------------------
\* positions of the kernel calls made by the step
NewCalls == (Len(kernel) + 1)..Len(kernel')

IsRegistration(e) == e.op # "unregister_volume"

Children(b) == Range(blocks[b].children)

\* C1: registration is idempotent: no operation issues a further kernel
\* registration call for a Block that is already registered, and the Block
\* stays registered.
C1_Idempotent ==
    [][\A b \in Blocks :
          blocks[b].is_registered =>
              /\ blocks'[b].is_registered
              /\ \A i \in NewCalls :
                     kernel'[i].owner = b => ~IsRegistration(kernel'[i])]_vars

\* a register() call that found its Block registered and issued no call,
\* every Block being registered
C1_Witness ==
    /\ call.op = "register"
    /\ ~call.raised
    /\ ncalls >= 2
    /\ call.before = Len(kernel)
    /\ \A b \in Blocks : blocks[b].is_registered

\* the Block's own registration ran in the step: its corner points were
\* registered
OwnRegistration(b) ==
    \E i \in NewCalls :
        kernel'[i].owner = b /\ kernel'[i].by = "register_points"

UnregisteredChild(b) ==
    \E c \in Children(b) :
        blocks[c].do_register /\ ~blocks'[c].is_registered

\* C2 as stated: at every boolean_level, a Block whose own registration runs
\* while a direct child with do_register is not registered is rejected with
\* an error and does not complete its registration.
C2_Original ==
    [][\A b \in Blocks :
          OwnRegistration(b) /\ UnregisteredChild(b) =>
              call'.raised /\ ~blocks'[b].is_registered]_vars

\* C2 amended: with boolean_level None, a Block whose own registration runs
\* while a direct child with do_register is not registered is rejected with
\* an error and stays unregistered; with a boolean_level set the children
\* are not examined and the Block's own registration always completes.
C2_RejectedWhenNoBooleanLevel ==
    [][\A b \in Blocks :
          OwnRegistration(b) =>
              IF blocks[b].boolean_level = None
              THEN UnregisteredChild(b) =>
                       call'.raised /\ ~blocks'[b].is_registered
              ELSE blocks'[b].is_registered]_vars

\* a register() call that raised in a Block with boolean_level None whose
\* child with do_register is not registered
C2_Witness ==
    /\ call.op = "register"
    /\ call.raised
    /\ \E b \in Blocks :
          /\ blocks[b].boolean_level = None
          /\ blocks[b].do_register
          /\ ~blocks[b].is_registered
          /\ \E i \in DOMAIN kernel :
                 /\ i > call.before
                 /\ kernel[i].owner = b
                 /\ kernel[i].op = "register_surface_loop"
          /\ \E c \in Children(b) :
                 blocks[c].do_register /\ ~blocks[c].is_registered

\* C3: registration is post-order: when do_register_children is set, every
\* kernel entity of a Block is created after the volume of each of its
\* children with do_register was registered (the child is then registered),
\* and a register() call that returns has registered those children also
\* when the Block's own do_register is off or it is registered already.
C3_PostOrder ==
    [][\A b \in Blocks :
          blocks[b].do_register_children =>
              /\ \A i \in NewCalls :
                     kernel'[i].owner = b /\ IsRegistration(kernel'[i]) =>
                         \A c \in Children(b) :
                             blocks[c].do_register =>
                                 /\ blocks'[c].is_registered
                                 /\ \E j \in 1..(i - 1) :
                                        /\ kernel'[j].op = "register_volume"
                                        /\ kernel'[j].owner = c
              /\ \A c \in Children(b) :
                     blocks[c].do_register /\ ~blocks'[c].is_registered =>
                         ~(call'.op = "register" /\ ~call'.raised
                           /\ Register(b))]_vars

\* one register() call on the first Block registered its two children and
\* then the Block itself
C3_Witness ==
    /\ ncalls = 1
    /\ call.op = "register"
    /\ blocks[1].do_register_children
    /\ blocks[1].children = <<2, 3>>
    /\ blocks[1].is_registered
    /\ blocks[2].is_registered
    /\ blocks[3].is_registered

\* the lists joined to list i by a chain of lists sharing a tag
RECURSIVE Chained(_, _)
Chained(lists, S) ==
    LET T == S \cup {j \in DOMAIN lists :
                        \E i \in S : Range(lists[i]) \cap Range(lists[j]) # {}}
    IN IF T = S THEN S ELSE Chained(lists, T)

\* the connected components of the lists, each as the set of its tags
Components(lists) ==
    {UNION {Range(lists[j]) : j \in Chained(lists, {i})} : i \in DOMAIN lists}

SurfaceLoop(k, tag) ==
    k[CHOOSE i \in DOMAIN k :
          k[i].op = "register_surface_loop" /\ k[i].tag = tag]

\* C4: when a Block becomes registered, its volume references the outer
\* loop of the Block's 6 faces, followed, if boolean_level is None, by
\* exactly one internal loop per connected group of the face-tag lists of
\* its children with do_register, and by nothing if boolean_level is set.
C4_SurfaceLoops ==
    [][\A b \in Blocks :
          ~blocks[b].is_registered /\ blocks'[b].is_registered =>
              LET cs == SelectSeq(blocks'[b].children,
                                  LAMBDA c : blocks'[c].do_register)
                  lists == [n \in DOMAIN cs |-> blocks'[cs[n]].surfaces]
                  loops == blocks'[b].volume_surfaces_loops
                  inner == [n \in 1..(Len(loops) - 1) |->
                              Range(SurfaceLoop(kernel', loops[n + 1]).refs)]
              IN /\ Len(loops) >= 1
                 /\ SurfaceLoop(kernel', loops[1]).refs = blocks'[b].surfaces
                 /\ \E i \in NewCalls :
                        /\ kernel'[i].op = "register_volume"
                        /\ kernel'[i].owner = b
                        /\ kernel'[i].refs = loops
                 /\ IF blocks'[b].boolean_level = None
                    THEN /\ Range(inner) = Components(lists)
                         /\ Len(inner) = Cardinality(Components(lists))
                    ELSE Len(loops) = 1]_vars

\* the first Block registered with one internal loop made of the faces of
\* its two registered children, which share a face
C4_Witness ==
    /\ blocks[1].is_registered
    /\ blocks[1].boolean_level = None
    /\ blocks[1].children = <<2, 3>>
    /\ blocks[2].is_registered /\ blocks[2].do_register
    /\ blocks[3].is_registered /\ blocks[3].do_register
    /\ blocks[2].surfaces[2] = blocks[3].surfaces[1]
    /\ Len(blocks[1].volume_surfaces_loops) = 2

\* C5: boolean grouping yields the connected components of its input: lists
\* joined by a chain of shared tags are in one group, other lists in
\* different groups, every input tag is in exactly one group, and
\* [[1,2,3],[3,4,5],[9,10]] yields the two groups {1,2,3,4,5} and {9,10}.
C5_Grouping ==
    call.op = "group" =>
        /\ \A i, j \in DOMAIN volumes_surfaces :
               (j \in Chained(volumes_surfaces, {i})) <=>
                   \E g \in DOMAIN surfaces_groups :
                       /\ Range(volumes_surfaces[i]) \subseteq surfaces_groups[g]
                       /\ Range(volumes_surfaces[j]) \subseteq surfaces_groups[g]
        /\ \A t \in UNION {Range(volumes_surfaces[i]) :
                              i \in DOMAIN volumes_surfaces} :
               Cardinality({g \in DOMAIN surfaces_groups :
                               t \in surfaces_groups[g]}) = 1
        /\ \A g \in DOMAIN surfaces_groups :
               surfaces_groups[g] \subseteq
                   UNION {Range(volumes_surfaces[i]) :
                             i \in DOMAIN volumes_surfaces}
        /\ Range(surfaces_groups) = Components(volumes_surfaces)
        /\ Len(surfaces_groups) = Cardinality(Components(volumes_surfaces))
        /\ volumes_surfaces = Example =>
               /\ Len(surfaces_groups) = 2
               /\ Range(surfaces_groups) = {{1, 2, 3, 4, 5}, {9, 10}}

\* three lists grouped, the first and the last joined through the second
\* only
C5_Witness ==
    /\ call.op = "group"
    /\ Len(volumes_surfaces) = 3
    /\ Range(volumes_surfaces[1]) \cap Range(volumes_surfaces[3]) = {}
    /\ Range(volumes_surfaces[1]) \cap Range(volumes_surfaces[2]) # {}
    /\ Range(volumes_surfaces[2]) \cap Range(volumes_surfaces[3]) # {}
    /\ Len(surfaces_groups) = 1

Removals(by) ==
    {i \in DOMAIN kernel :
        kernel[i].op = "unregister_volume" /\ kernel[i].by = by}

WasRegistered(i) ==
    \E j \in 1..(i - 1) :
        /\ kernel[j].op = "register_volume"
        /\ kernel[j].owner = kernel[i].owner
        /\ kernel[j].tag = kernel[i].tag

\* C6: unregister() removes a Block's volume only if the Block is
\* registered, its do_unregister is set and the volume's zone does not
\* contain the separator the Block's unregister() was called with; so a
\* zone "A-B" is never removed by an unregister() with separator "-".
C6_UnregisterSimpleOnly ==
    \A i \in Removals("unregister") :
        LET b == kernel[i].owner
        IN /\ blocks[b].is_registered
           /\ WasRegistered(i)
           /\ blocks[b].do_unregister
           /\ ~Contains(kernel[i].sep, blocks[b].zone)
           /\ kernel[i].sep = <<"-">> => blocks[b].zone # <<"A", "-", "B">>

\* unregister() removed the volume of one Block and left the volume of the
\* other, whose zone is "A-B", in the kernel
C6_Witness ==
    /\ call.op = "unregister"
    /\ \E i \in Removals("unregister"), b \in Blocks :
          /\ i > call.before
          /\ kernel[i].owner # b
          /\ blocks[b].is_registered
          /\ blocks[b].do_unregister
          /\ blocks[b].zone = <<"A", "-", "B">>
          /\ blocks[b].volume \in KernelVolumes(kernel)

\* C7: unregister_boolean() removes a Block's volume only if the Block is
\* registered, its boolean_level is set, its do_unregister_boolean is set
\* and the volume's zone contains the separator the call was made with; so
\* a zone "A" and a Block with boolean_level None are never affected.
C7_UnregisterBooleanOnly ==
    \A i \in Removals("unregister_boolean") :
        LET b == kernel[i].owner
        IN /\ blocks[b].is_registered
           /\ WasRegistered(i)
           /\ blocks[b].do_unregister_boolean
           /\ blocks[b].boolean_level # None
           /\ Contains(kernel[i].sep, blocks[b].zone)
           /\ blocks[b].zone # <<"A">>

\* unregister_boolean() removed the volume of one Block and left the volume
\* of the other, whose zone is "A", in the kernel
C7_Witness ==
    /\ call.op = "unregister_boolean"
    /\ \E i \in Removals("unregister_boolean"), b \in Blocks :
          /\ i > call.before
          /\ kernel[i].owner # b
          /\ blocks[b].is_registered
          /\ blocks[b].do_unregister_boolean
          /\ blocks[b].zone = <<"A">>
          /\ blocks[b].volume \in KernelVolumes(kernel)

AxisOf(i) == (i \div 4) + 1

Corner(p) == default_points[p + 1]

\* C9: the edge table connects the documented corner pairs; edges 0-3, 4-7
\* and 8-11 join two corners that differ in X, Y and Z only, from the
\* negative to the positive side; and every registered curve of a Block
\* runs from the Block's corner point of the first index to that of the
\* second.
C9_EdgeTable ==
    /\ curves_points = doc_curves
    /\ \A i \in 0..11 :
           LET p == Corner(curves_points[i + 1][1])
               q == Corner(curves_points[i + 1][2])
           IN /\ p[AxisOf(i)] < 0 /\ q[AxisOf(i)] > 0
              /\ \A a \in 1..3 : a # AxisOf(i) => p[a] = q[a]
    /\ \A n \in DOMAIN kernel :
           LET e == kernel[n]
           IN e.op = "register_curve"
              /\ e.tag = blocks[e.owner].curves[e.idx + 1] =>
                  /\ e.refs[1] =
                         blocks[e.owner].points[doc_curves[e.idx + 1][1] + 1]
                  /\ e.refs[Len(e.refs)] =
                         blocks[e.owner].points[doc_curves[e.idx + 1][2] + 1]

\* a registered Block, whose 12 curves the kernel holds
C9_Witness ==
    \E b \in Blocks :
        /\ blocks[b].is_registered
        /\ \A i \in 1..12 :
               \E n \in DOMAIN kernel :
                   /\ kernel[n].op = "register_curve"
                   /\ kernel[n].owner = b
                   /\ kernel[n].tag = blocks[b].curves[i]

\* C10 as stated: the curve loop registered for face i is the documented
\* signed 4-edge sequence of that face, in that order.
C10_Original ==
    \A n \in DOMAIN kernel :
        LET e == kernel[n]
        IN e.op = "register_curve_loop"
           /\ e.tag = blocks[e.owner].curves_loops[e.idx + 1] =>
               e.refs = [m \in 1..4 |->
                            doc_surfaces[e.idx + 1][m][1]
                            * blocks[e.owner].curves[
                                  doc_surfaces[e.idx + 1][m][2] + 1]]

ImplementedCodes ==
    {<<"L", "L", "L">>, <<"R", "R", "L">>, <<"L", "R", "R">>,
     <<"R", "L", "R">>}

\* C11: for each of the implemented codes LLL, RRL, LRR and RLR,
\* parse_structure_type returns an arrangement list of 6 entries, each Left
\* or Right, and a volume corner list that is a bijection of 0..7.
C11_ImplementedTypes ==
    parsed.structure_type.done /\ args.structure_type \in ImplementedCodes =>
        /\ parsed.structure_type.raised = ""
        /\ LET r == parsed.structure_type.value
           IN /\ Len(r.surfaces_arrangement) = 6
              /\ Range(r.surfaces_arrangement) \subseteq {"Left", "Right"}
              /\ Len(r.volume_points) = 8
              /\ Range(r.volume_points) = 0..7

\* RRL parsed: its corner list is not the identity
C11_Witness ==
    /\ parsed.structure_type.done
    /\ args.structure_type = <<"R", "R", "L">>
    /\ parsed.structure_type.raised = ""
    /\ parsed.structure_type.value.volume_points[1] = 2

\* C12 as stated: exactly the codes RLL, LRL, LLR and RRR fail with the
\* not-implemented error; every other string that is not an implemented
\* code fails with the invalid-value error.
C12_Original ==
    parsed.structure_type.done =>
        LET code == args.structure_type
            unimplemented == {<<"R", "L", "L">>, <<"L", "R", "L">>,
                              <<"L", "L", "R">>, <<"R", "R", "R">>}
        IN /\ parsed.structure_type.raised = "NotImplementedError"
                  <=> code \in unimplemented
           /\ code \notin unimplemented \cup ImplementedCodes =>
                  parsed.structure_type.raised = "ValueError"

ArrangementOf(letter) == IF letter = "L" THEN "Left" ELSE "Right"

\* C13: for every implemented code, letter 1 is the arrangement of the NX
\* and X faces, letter 2 of NY and Y, letter 3 of NZ and Z, the returned
\* list being in the order NX, X, NY, Y, NZ, Z.
C13_LettersPerAxis ==
    parsed.structure_type.done /\ args.structure_type \in ImplementedCodes =>
        \A axis \in 1..3 :
            LET r == parsed.structure_type.value.surfaces_arrangement
            IN /\ r[2 * axis - 1] = ArrangementOf(args.structure_type[axis])
               /\ r[2 * axis] = ArrangementOf(args.structure_type[axis])

\* LRR parsed: Left for the X pair, Right for the Y and Z pairs
C13_Witness ==
    /\ parsed.structure_type.done
    /\ args.structure_type = <<"L", "R", "R">>
    /\ parsed.structure_type.value.surfaces_arrangement =
           <<"Left", "Left", "Right", "Right", "Right", "Right">>

\* the signs of the corners P0..P7
CornerSigns ==
    << <<1, 1, -1>>, <<-1, 1, -1>>, <<-1, -1, -1>>, <<1, -1, -1>>,
       <<1, 1, 1>>, <<-1, 1, 1>>, <<-1, -1, 1>>, <<1, -1, 1>> >>

\* C16: parse_points of a number s gives 8 corners, corner i at s/2 times
\* the signs of Pi on every axis (coordinates are kept in halves: twice a
\* stored coordinate is the sign times Lit(s)); an argument that is neither
\* None, a number nor a list raises.
C16_ScalarPoints ==
    parsed.points.done =>
        /\ args.points.kind = "number" =>
               /\ parsed.points.raised = ""
               /\ Len(parsed.points.value) = 8
               /\ \A i \in 1..8, j \in 1..3 :
                      2 * parsed.points.value[i].coordinates[j] =
                          CornerSigns[i][j] * Lit(args.points.v)
        /\ args.points.kind \notin {"none", "number", "list"} =>
               parsed.points.raised = "ValueError"

\* 2.0 parsed: P0 at (1.0, 1.0, -1.0), P6 at (-1.0, -1.0, 1.0)
C16_Witness ==
    /\ parsed.points.done
    /\ args.points = Num(2)
    /\ parsed.points.value[1].coordinates = <<Lit(1), Lit(1), Lit(0 - 1)>>
    /\ parsed.points.value[7].coordinates =
           <<Lit(0 - 1), Lit(0 - 1), Lit(1)>>

AxisCode(axis, sign) == IF sign > 0 THEN <<axis>> ELSE <<"N", axis>>

\* X or NX, then Y or NY, then Z or NZ, joined by '_'
OctantCode(signs) ==
    AxisCode("X", signs[1]) \o <<"_">> \o AxisCode("Y", signs[2])
        \o <<"_">> \o AxisCode("Z", signs[3])

\* C17 as stated: with no explicit zone the default lists have 8, 12, 6 and
\* 1 names: faces NX, X, NY, Y, NZ, Z; edges X1..X4, Y1..Y4, Z1..Z4; the
\* name of corner i is the octant code of the signs of corner i of the
\* default points, and the 8 names are distinct.
C17_Original ==
    parsed.zone.done /\ args.zone.kind = "none" =>
        LET z == parsed.zone.value
            corners == parse_points(PyNone).value
        IN /\ Len(z.points_zones) = 8 /\ Len(z.curves_zones) = 12
           /\ Len(z.surfaces_zones) = 6 /\ Len(z.volumes_zones) = 1
           /\ z.surfaces_zones =
                  << <<"N", "X">>, <<"X">>, <<"N", "Y">>, <<"Y">>,
                     <<"N", "Z">>, <<"Z">> >>
           /\ \A i \in 0..11 :
                  z.curves_zones[i + 1] =
                      << <<"X", "Y", "Z">>[(i \div 4) + 1],
                         <<"1", "2", "3", "4">>[(i % 4) + 1] >>
           /\ \A i \in 1..8 :
                  z.points_zones[i] = OctantCode(corners[i].coordinates)
           /\ \A i, j \in 1..8 :
                  i # j => z.points_zones[i] # z.points_zones[j]

\* the Blocks below b, b included
RECURSIVE Reach(_)
Reach(S) ==
    LET n == S \cup UNION {Children(x) : x \in S}
    IN IF n = S THEN S ELSE Reach(n)

\* the places of c in the children lists of the Blocks of S
Slots(S, c) ==
    {s \in S \X (1..MaxNodes) :
        /\ s[2] \in DOMAIN blocks[s[1]].children
        /\ blocks[s[1]].children[s[2]] = c}

\* the Blocks below b form a tree: each is the child of one of them, once
TreeAt(b) ==
    \A c \in Reach({b}) :
        Cardinality(Slots(Reach({b}), c)) = IF c = b THEN 0 ELSE 1

\* C14: iterating the tree of N Blocks below a Block yields N Blocks, each
\* once, the Block itself first, every Block at once followed by the
\* subtree of its first child, then the subtree of its next child, and so
\* on; len is N.
C14_PreOrder ==
    [][walk' # walk /\ walk'.op = "iter" /\ TreeAt(walk'.root) =>
          LET order == walk'.order
              N == Cardinality(Reach({walk'.root}))
          IN /\ Len(order) = N
             /\ Range(order) = Reach({walk'.root})
             /\ order[1] = walk'.root
             /\ walk'.len = N
             /\ \A i \in DOMAIN order :
                    LET cs == blocks[order[i]].children
                    IN \A j \in DOMAIN cs :
                           order[i + 1 + Cardinality(
                                     Reach({cs[m] : m \in 1..(j - 1)}))] =
                               cs[j]]_vars

\* a tree of 4 Blocks was iterated from its root: the first child has a
\* child, which comes before the second child
C14_Witness ==
    /\ walk.op = "iter"
    /\ walk.root = 1
    /\ TreeAt(1)
    /\ blocks[1].children = <<2, 3>>
    /\ blocks[2].children = <<4>>
    /\ walk.order = <<1, 2, 4, 3>>
    /\ walk.len = 4

\* C15 as stated: make_tree() of a tree built with the constructor and
\* add_child maps every Block that has children to its children list, and
\* lists a root without parent under the root sentinel.
C15_Original ==
    [][walk' # walk /\ walk'.op = "make_tree" /\ TreeAt(walk'.root) =>
          /\ \A p \in Reach({walk'.root}) :
                 blocks[p].children # <<>> =>
                     /\ p \in DOMAIN walk'.tree
                     /\ walk'.tree[p] = blocks[p].children
          /\ blocks[walk'.root].parent = None =>
                 /\ None \in DOMAIN walk'.tree
                 /\ walk'.root \in Range(walk'.tree[None])]_vars

\* C18: after one transform() of a tree that returned, the root's transform
\* list is as declared, and the list of every Block below it is its own
\* declared transforms, then the transforms its parent declared for it,
\* then the whole list of its parent.
C18_TransformOrder ==
    [][ncalls = 0 /\ call'.op = "transform" /\ ~call'.raised =>
          \A b \in Blocks :
              Transform(b) /\ TreeAt(b) =>
                  /\ blocks'[b].transforms = blocks[b].transforms
                  /\ \A p \in Reach({b}) :
                         \A i \in DOMAIN blocks[p].children :
                             blocks'[blocks[p].children[i]].transforms =
                                 blocks[blocks[p].children[i]].transforms
                                     \o blocks[p].children_transforms[i]
                                     \o blocks'[p].transforms]_vars

\* a chain of three Blocks transformed from its root: the last Block's list
\* ends with the transforms declared for the second and with the root's
C18_Witness ==
    /\ ncalls = 1
    /\ call.op = "transform"
    /\ ~call.raised
    /\ blocks[1].children = <<2>>
    /\ blocks[2].children = <<3>>
    /\ blocks[3].transforms =
           <<Transformation("translate", 3), Transformation("rotate", 3),
             Transformation("translate", 2), Transformation("rotate", 2),
             Transformation("translate", 1)>>

\* the places (<<0, corner>> or <<curve, point>>) of the points of Block c
\* in the Block coordinate system
RelativeAt(c) ==
    {<<0, k>> : k \in {i \in 1..8 : IsBlockCS(blocks[c].coordinates[i])}}
    \cup {q \in (1..12) \X (1..2) :
             /\ q[2] \in DOMAIN blocks[c].curves_coordinates[q[1]]
             /\ IsBlockCS(blocks[c].curves_coordinates[q[1]][q[2]])}

PointAt(bs, c, q) ==
    IF q[1] = 0 THEN bs[c].coordinates[q[2]]
    ELSE bs[c].curves_coordinates[q[1]][q[2]]

\* C19 as stated: when a transform() of a tree returned, every Block-relative
\* point of a child was anchored to the corner coordinates of its parent
\* with the parent's own transform list applied to them.
C19_Original ==
    [][call'.op = "transform" /\ ~call'.raised =>
          \A b \in Blocks :
              Transform(b) =>
                  \A p \in Reach({b}) :
                      \A c \in Children(p) :
                          blocks[c].parent = p =>
                              \A q \in RelativeAt(c) :
                                  PointAt(blocks', c, q).ps =
                                      [x \in 1..8 |->
                                          blocks[p].coordinates[x].applied
                                              \o blocks'[p].transforms]]_vars

\* C19, amended: every Block-relative point of a child is anchored to the
\* corner coordinates its parent had before the call transformed them (the
\* children are handled before the parent's own points), and the child's
\* transform list, which ends with the parent's, is then applied to it.
C19_AnchoredBeforeParent ==
    [][call'.op = "transform" /\ ~call'.raised =>
          \A b \in Blocks :
              Transform(b) =>
                  \A p \in Reach({b}) :
                      \A c \in Children(p) :
                          blocks[c].parent = p =>
                              \A q \in RelativeAt(c) :
                                  /\ PointAt(blocks', c, q).ps =
                                         [x \in 1..8 |->
                                             blocks[p].coordinates[x].applied]
                                  /\ PointAt(blocks', c, q).applied =
                                         PointAt(blocks, c, q).applied
                                             \o blocks'[c].transforms]_vars

\* after one transform() of a parent with a transform of its own, its
\* child's Block-relative corner is anchored to untransformed corners while
\* the parent's corners have been transformed
C19_Witness ==
    /\ ncalls = 1
    /\ call.op = "transform"
    /\ ~call.raised
    /\ blocks[1].children = <<2>>
    /\ blocks[2].parent = 1
    /\ blocks[1].transforms # <<>>
    /\ blocks[1].coordinates[1].applied = blocks[1].transforms
    /\ blocks[2].coordinates[RelativeCorner].ps = [x \in 1..8 |-> <<>>]
    /\ blocks[2].coordinates[RelativeCorner].applied = blocks[2].transforms

\* C20 as stated: transform() of a Block raises exactly when the Block has
\* no parent and holds a point in the Block coordinate system, and then
\* leaves the Block's points of that kind as they were.
C20_Original ==
    [][call'.op = "transform" =>
          \A b \in Blocks :
              Transform(b) =>
                  IF blocks[b].parent = None /\ RelativeAt(b) # {}
                  THEN /\ call'.raised
                       /\ \A q \in RelativeAt(b) :
                              PointAt(blocks', b, q) = PointAt(blocks, b, q)
                  ELSE ~call'.raised]_vars

\* the faces of Block b the kernel holds when its call i is made: for each
\* of the 6 faces the tag of its latest registration
OwnFaces(k, b, i) ==
    [n \in 1..6 |->
        LET at == {j \in 1..(i - 1) : /\ k[j].op = "register_surface"
                                      /\ k[j].owner = b
                                      /\ k[j].idx = n - 1}
        IN IF at = {} THEN None
           ELSE k[CHOOSE j \in at : \A m \in at : m <= j].tag]

\* the tags of the faces registered by the children of Block b
ChildrenFaces(k, b) ==
    {k[j].tag : j \in {m \in DOMAIN k : /\ k[m].op = "register_surface"
                                        /\ k[m].owner \in Children(b)}}

\* C21: every volume in the kernel references first the outer loop of its
\* Block, which holds the Block's 6 registered faces in the order NX, X,
\* NY, Y, NZ, Z; every further loop it references is an internal loop of
\* that Block made of faces of the Block's children only.
C21_OuterLoopFirst ==
    \A v \in DOMAIN kernel :
        kernel[v].op = "register_volume" =>
            LET b == kernel[v].owner
                loops == kernel[v].refs
                at(n) == CHOOSE i \in DOMAIN kernel :
                             /\ kernel[i].op = "register_surface_loop"
                             /\ kernel[i].tag = loops[n]
            IN /\ Len(loops) >= 1
               /\ \A n \in DOMAIN loops :
                      \E i \in 1..(v - 1) :
                          /\ kernel[i].op = "register_surface_loop"
                          /\ kernel[i].tag = loops[n]
               /\ kernel[at(1)].owner = b
               /\ kernel[at(1)].idx = 0
               /\ kernel[at(1)].refs = OwnFaces(kernel, b, at(1))
               /\ \A n \in 1..6 : kernel[at(1)].refs[n] # None
               /\ \A n \in 2..Len(loops) :
                      /\ kernel[at(n)].owner = b
                      /\ kernel[at(n)].idx = n - 1
                      /\ kernel[at(n)].refs # <<>>
                      /\ Range(kernel[at(n)].refs) \subseteq
                             ChildrenFaces(kernel, b)

\* the kernel holds a volume with an internal loop behind its outer loop
C21_Witness ==
    \E v \in DOMAIN kernel :
        /\ kernel[v].op = "register_volume"
        /\ Len(kernel[v].refs) >= 2
        /\ blocks[kernel[v].owner].is_registered

\* the step of register() a kernel call belongs to
Phase(e) ==
    CASE e.by = "register_points" -> 1
      [] e.by = "register_curve_points" -> 2
      [] e.op = "register_curve" -> 3
      [] e.op = "register_curve_loop" -> 4
      [] e.op = "register_surface" -> 5
      [] e.op = "register_surface_loop" -> 6
      [] e.op = "register_volume" -> 7
      [] e.by = "register_structure" -> 8
      [] e.by = "register_quadrate" -> 9
      [] OTHER -> 0

\* the kernel call that creates what a call of kind op references
ReferencedBy(op) ==
    CASE op = "register_curve_loop" -> "register_curve"
      [] op = "register_surface" -> "register_curve_loop"
      [] op = "register_surface_loop" -> "register_surface"
      [] op = "register_volume" -> "register_surface_loop"
      [] OTHER -> "register_point"

Abs(x) == IF x < 0 THEN 0 - x ELSE x

\* the calls of the step made for Block b in the given phase before call i
Before(i, b, phase) ==
    {j \in NewCalls : /\ j < i
                      /\ kernel'[j].owner = b
                      /\ Phase(kernel'[j]) = phase}

\* C22: the kernel calls one register() makes for one Block come in the
\* order corner points, curve interior points, curves, curve loops, faces,
\* outer surface loop and then internal loops, volume, structure
\* directives, quadrate directives; the volume is registered after all 8
\* corners, 12 curves, 6 curve loops, 6 faces and the outer loop; a
\* directive is applied only to a Block whose volume the call registered
\* and which is marked registered (also when a directive then raises); and
\* every call references only entities registered by earlier calls.
C22_RegistrationOrder ==
    [][call'.op = "register" /\ ncalls' = ncalls + 1 =>
          /\ \A i \in NewCalls, j \in NewCalls :
                 i < j /\ kernel'[i].owner = kernel'[j].owner =>
                     /\ Phase(kernel'[i]) > 0
                     /\ Phase(kernel'[i]) <= Phase(kernel'[j])
                     /\ Phase(kernel'[i]) = 6 /\ Phase(kernel'[j]) = 6 =>
                            kernel'[i].idx < kernel'[j].idx
          /\ \A i \in NewCalls :
                 \A n \in DOMAIN kernel'[i].refs :
                     \E j \in 1..(i - 1) :
                         /\ kernel'[j].op = ReferencedBy(kernel'[i].op)
                         /\ kernel'[j].tag = Abs(kernel'[i].refs[n])
          /\ \A i \in NewCalls :
                 LET b == kernel'[i].owner
                 IN /\ Phase(kernel'[i]) = 7 =>
                           /\ Cardinality(Before(i, b, 1)) = 8
                           /\ Cardinality(Before(i, b, 3)) = 12
                           /\ Cardinality(Before(i, b, 4)) = 6
                           /\ Cardinality(Before(i, b, 5)) = 6
                           /\ \E j \in Before(i, b, 6) : kernel'[j].idx = 0
                    /\ Phase(kernel'[i]) >= 8 =>
                           /\ Before(i, b, 7) # {}
                           /\ ~blocks[b].is_registered
                           /\ blocks'[b].is_registered]_vars

\* a register() call applied all structure directives and then the quadrate
\* directives of the first Block, whose first curve has an interior point
C22_Witness ==
    /\ call.op = "register"
    /\ ~call.raised
    /\ blocks[1].is_registered
    /\ Len(blocks[1].curves_chain[1]) = 3
    /\ LastEntryOf(kernel).op = "register_surface_quadrate"
    /\ LastEntryOf(kernel).owner = 1
    /\ \E i \in DOMAIN kernel : /\ kernel[i].op = "register_volume_structure"
                                /\ kernel[i].owner = 1
    /\ \E i \in DOMAIN kernel : /\ kernel[i].op = "register_curve_structure"
                                /\ kernel[i].owner = 1
                                /\ Len(kernel[i].refs) = 3

\* the chain of curve i of Block b is its start corner, its n interior
\* points as register_curve_points registered them, in their order, and its
\* end corner
ChainOf(b, i, n) ==
    LET chain == blocks[b].curves_chain[i]
    IN /\ Len(chain) = n + 2
       /\ chain[1] = blocks[b].points[curves_points[i][1] + 1]
       /\ chain[Len(chain)] = blocks[b].points[curves_points[i][2] + 1]
       /\ \A j \in 2..(n + 1) :
              /\ \E m \in DOMAIN kernel :
                     /\ kernel[m].by = "register_curve_points"
                     /\ kernel[m].owner = b
                     /\ kernel[m].idx = i - 1
                     /\ kernel[m].tag = chain[j]
              /\ j > 2 => chain[j - 1] < chain[j]

\* C23: after a Block is registered, the point chain of each of its curves
\* is the Block's registered corner curves_points[i][0], the curve's own
\* interior points in their original order, and the Block's registered
\* corner curves_points[i][1].
C23_Original ==
    \A b \in Blocks :
        blocks[b].is_registered =>
            \A i \in 1..12 :
                ChainOf(b, i, Len(blocks[b].curves_coordinates[i]))

\* the calls of kind op the step made for Block b
Created(b, op) ==
    {i \in NewCalls : kernel'[i].owner = b /\ kernel'[i].op = op}

\* C24: a register() call that raises because a child with do_register is
\* not registered leaves the Block it failed in unregistered and without a
\* volume, and keeps in the kernel everything created before: nothing is
\* removed from the kernel, and the Block's 8 corner points, 12 curves, 6
\* curve loops, 6 faces and outer surface loop created by the call are
\* there.  Every register() call, failed or not, leaves the Blocks that
\* were registered before it registered and makes no kernel call for them.
C24_NoRollback ==
    [][call'.op = "register" /\ ncalls' = ncalls + 1 =>
          /\ SubSeq(kernel', 1, Len(kernel)) = kernel
          /\ \A c \in Blocks :
                 blocks[c].is_registered =>
                     /\ blocks'[c].is_registered
                     /\ blocks'[c].volume = blocks[c].volume
                     /\ \A i \in NewCalls : kernel'[i].owner # c
          /\ call'.raised =>
                 \E b \in Blocks :
                     /\ UnregisteredChild(b)
                     /\ ~blocks'[b].is_registered
                     /\ Created(b, "register_volume") = {}
                     /\ {i \in DOMAIN kernel' :
                            /\ kernel'[i].op = "register_volume"
                            /\ kernel'[i].owner = b} = {}
                     /\ Cardinality({i \in Created(b, "register_point") :
                            kernel'[i].by = "register_points"}) = 8
                     /\ Cardinality(Created(b, "register_curve")) = 12
                     /\ Cardinality(Created(b, "register_curve_loop")) = 6
                     /\ Cardinality(Created(b, "register_surface")) = 6
                     /\ \E i \in Created(b, "register_surface_loop") :
                            /\ kernel'[i].idx = 0
                            /\ i = Len(kernel')
                            /\ blocks'[b].surfaces_loops = <<kernel'[i].tag>>]_vars

\* a register() call raised in the first Block, one child of which was
\* registered by an earlier call and stays so while the other is not
\* registered; the first Block's outer surface loop is the last kernel call
C24_Witness ==
    /\ call.op = "register"
    /\ call.raised
    /\ ncalls >= 2
    /\ ~blocks[1].is_registered
    /\ LastEntryOf(kernel).op = "register_surface_loop"
    /\ LastEntryOf(kernel).owner = 1
    /\ \E c \in Children(1) :
           /\ blocks[c].is_registered
           /\ \E i \in 1..call.before :
                  kernel[i].op = "register_volume" /\ kernel[i].owner = c
    /\ \E c \in Children(1) :
           blocks[c].do_register /\ ~blocks[c].is_registered

\* C25: when every call is made with the same separator, no volume is
\* removed both by the unregister() pass and by the unregister_boolean()
\* pass.
C25_Original ==
    \A i \in Removals("unregister"), j \in Removals("unregister_boolean") :
        ~(/\ kernel[i].owner = kernel[j].owner
          /\ kernel[i].tag = kernel[j].tag)

\* C26: the separator a call is made with decides for every Block of the
\* subtree: a volume is removed by unregister() only if its zone does not
\* contain that separator, and by unregister_boolean() only if it does.
C26_Original ==
    \A i \in DOMAIN kernel :
        kernel[i].op = "unregister_volume" =>
            (Contains(CallerSeparator, blocks[kernel[i].owner].zone)
                <=> kernel[i].by = "unregister_boolean")

\* the corner where curve n of the loop of face f (1..6) starts and ends
\* when it is taken in its signed direction
LoopStart(f, n) ==
    LET c == curves_points[surfaces_curves[f][n] + 1]
    IN IF surfaces_curves_signs[f][n] > 0 THEN c[1] ELSE c[2]

LoopEnd(f, n) ==
    LET c == curves_points[surfaces_curves[f][n] + 1]
    IN IF surfaces_curves_signs[f][n] > 0 THEN c[2] ELSE c[1]

\* the point tag where the registered curve of signed tag t starts or ends
CurveEnd(k, t, first) ==
    LET c == k[CHOOSE i \in DOMAIN k :
                   k[i].op = "register_curve" /\ k[i].tag = Abs(t)]
    IN IF (t > 0) = first THEN c.refs[1] ELSE c.refs[Len(c.refs)]

\* C27: in each of the 6 face loops the curves, taken in their signed
\* directions, form a closed chain (each ends where the next starts, the
\* last where the first starts) through exactly the 4 corners the
\* face-corner table lists for the face; parse_structure_type returns that
\* same face-corner table for every implemented structure type; and every
\* curve loop the kernel holds is such a closed chain of registered curves
\* through the registered corner points of those 4 corners.
C27_ClosedFaceLoops ==
    /\ \A f \in 1..6 :
           /\ \A n \in 1..4 : LoopEnd(f, n) = LoopStart(f, (n % 4) + 1)
           /\ {LoopStart(f, n) : n \in 1..4} = Range(surfaces_points[f])
           /\ Cardinality(Range(surfaces_points[f])) = 4
    /\ \A code \in ImplementedCodes :
           parse_structure_type(code).value.surfaces_points = surfaces_points
    /\ \A i \in DOMAIN kernel :
           LET e == kernel[i]
           IN e.op = "register_curve_loop"
              /\ e.tag = blocks[e.owner].curves_loops[e.idx + 1] =>
                  /\ \A n \in 1..4 :
                         CurveEnd(kernel, e.refs[n], FALSE)
                             = CurveEnd(kernel, e.refs[(n % 4) + 1], TRUE)
                  /\ {CurveEnd(kernel, e.refs[n], TRUE) : n \in 1..4}
                         = {blocks[e.owner].points[p + 1] :
                                p \in Range(blocks[e.owner].surfaces_points[
                                                e.idx + 1])}

\* a registered Block, whose 6 curve loops the kernel holds
C27_Witness ==
    \E b \in Blocks :
        /\ blocks[b].is_registered
        /\ \A f \in 1..6 :
               \E i \in DOMAIN kernel :
                   /\ kernel[i].op = "register_curve_loop"
                   /\ kernel[i].owner = b
                   /\ kernel[i].idx = f - 1
                   /\ kernel[i].tag = blocks[b].curves_loops[f]

\* C28: a Block constructed with children_transforms=None has, after any
\* add_child calls, as many children_transforms as children, and no
\* transform() call fails in reading children_transforms.
C28_Original ==
    /\ \A b \in Blocks :
           Len(blocks[b].children_transforms) = Len(blocks[b].children)
    /\ call.op = "transform" => ~call.raised

\* C29 as stated: a second transform() of the same tree leaves the
\* transform list of every Block below the root as the first call left it.
C29_Original ==
    [][ncalls = 1 /\ ~call.raised /\ call'.op = "transform" /\ TreeAt(1) =>
          \A c \in Reach({1}) \ {1} :
              blocks'[c].transforms = blocks[c].transforms]_vars

\* C29 amended: propagation is repeated by every call: a second transform()
\* of the same tree that returns leaves the root's list as it was and
\* appends to the list of every Block below it, once more, the transforms
\* its parent declared for it followed by the whole list of its parent.
C29_AppendedAgain ==
    [][(ncalls = 1 /\ ~call.raised /\ call'.op = "transform"
        /\ ~call'.raised /\ TreeAt(1)) =>
          /\ blocks'[1].transforms = blocks[1].transforms
          /\ \A p \in Reach({1}) :
                 \A i \in DOMAIN blocks[p].children :
                     blocks'[blocks[p].children[i]].transforms =
                         blocks[blocks[p].children[i]].transforms
                             \o blocks[p].children_transforms[i]
                             \o blocks'[p].transforms]_vars

\* two transform() calls on the root returned: the list of its child holds
\* the root's own transform twice
C29_Witness ==
    /\ ncalls = 2
    /\ call.op = "transform"
    /\ ~call.raised
    /\ blocks[1].children # <<>>
    /\ LET c == blocks[1].children[1]
       IN Cardinality({i \in DOMAIN blocks[c].transforms :
              blocks[c].transforms[i] = Transformation("translate", 1)}) = 2

\* the new cells the cells of a row are divided into
Division(c) ==
    IF c = Num(1) \/ c = Num(2) THEN 1
    ELSE IF c = Str(<<"1", ":", "2", ":", "1", ":", "1">>) THEN 2
    ELSE IF c \in {Subdivided(n) : n \in 2..(MaxDivision + 1)}
    THEN (CHOOSE n \in 2..(MaxDivision + 1) : c = Subdivided(n)) - 1
    ELSE 0

RECURSIVE Divisions(_, _)
Divisions(row, n) ==
    IF n = 0 THEN 0 ELSE Divisions(row, n - 1) + Division(row[n])

\* the cell of the row (counted from 0) that new cell i (from 0) lies in
CellOf(row, i) ==
    (CHOOSE col \in DOMAIN row :
         Divisions(row, col - 1) <= i /\ i < Divisions(row, col)) - 1

\* C30: parse_map returns one value per generated Block, in the order the
\* Blocks are generated (parameter set, z, y, x): the default for a None
\* map, the map itself for a scalar, and for a list the entry of the old
\* cell (same parameter set) whose subdivision the Block lies in.
C30_ParseMap ==
    parsed.done /\ parsed.raised = "" =>
        LET points == args.points
            nx == Divisions(points[1], Len(points[1]))
            ny == Divisions(points[2], Len(points[2]))
            nz == Divisions(points[3], Len(points[3]))
            sets == IF Len(points) = 3 THEN 1 ELSE Len(points[4]) + 1
        IN /\ Len(parsed.value) = sets * nx * ny * nz
           /\ \A pi \in 0..(sets - 1), zi \in 0..(nz - 1),
                 yi \in 0..(ny - 1), xi \in 0..(nx - 1) :
                  parsed.value[pi * nz * ny * nx + zi * ny * nx + yi * nx
                               + xi + 1]
                  = IF args.m.kind = "none" THEN args.default
                    ELSE IF args.m.kind # "list" THEN args.m
                    ELSE args.m.v[
                             pi * Len(points[1]) * Len(points[2])
                                * Len(points[3])
                             + CellOf(points[3], zi) * Len(points[2])
                                   * Len(points[1])
                             + CellOf(points[2], yi) * Len(points[1])
                             + CellOf(points[1], xi) + 1]

\* a list map was parsed for a grid with a cell of x divided in two and a
\* cell of x with no Block, in two parameter sets
C30_Witness ==
    /\ parsed.done
    /\ parsed.raised = ""
    /\ args.m.kind = "list"
    /\ Len(args.points) = 4
    /\ args.points[1] = <<Subdivided(1), Subdivided(3)>>
    /\ Len(parsed.value) > OldCells(args.points)

====
